---- MODULE Spec2Model ----
(***************************************************************************)
(* The .astro compiler pipeline: optimize (style scoping, doctype          *)
(* insertion) and codegen (frontmatter module, component wrappers,         *)
(* markup lowering).                                                       *)
(*                                                                         *)
(* Strings of the program are sequences of string tokens: a class list is  *)
(* its sequence of words, a tag name is its ':'-separated pieces with the  *)
(* ':' kept as a token, a message is its template pieces.                  *)
(***************************************************************************)
EXTENDS Integers, Sequences, FiniteSets, TLC

VARIABLES
  opts,                   \* c -> [filename, fileID]: the options of compile c
  source,                 \* c -> the heap as the parser built it (never changes)
  nodes,                  \* c -> the heap of TemplateNodes of c's Ast (node id = index)
  ast,                    \* c -> [html: node id, css: Seq(node id)]
  pc,                     \* c -> the stage compile c has reached
  stack,                  \* c -> the walker's recursion: Seq([node, i, nested])
  scopedClass,            \* c -> styles pass: the scope token
  styleNodes,             \* c -> styles pass: collected <style> nodes (ids)
  styleTransformPromises, \* c -> styles pass: one transformStyle() call per collected node
  rootNode,               \* c -> styles pass: the injection root (0 = undefined)
  hasDoctype,             \* c -> doctype pass: flag
  nodeModulesMiniCache,   \* process-wide: filename -> node_modules dir found
  module,                 \* c -> ast.module, the frontmatter parsed: [defined, body]
  files,                  \* the filesystem seen by glob: pattern -> matched paths
  compileOptions,         \* c -> [extensions]
  state,                  \* c -> CodegenState, with the locals of codegen() (script, outSource)
  globLookups,            \* c -> patterns looked up through glob() or the cache, in order
  miniGlobCache,          \* process-wide: filename -> (pattern -> found)
  resolved,               \* c -> the component references resolved so far, with what each gave
  result,                 \* c -> what codegen returned
  error,                  \* c -> the error the compile threw
  running,                \* the compile whose synchronous segment is executing (0 = none)
  calls,                  \* c -> the visitor callbacks and finalize()s optimize invoked, in order
  compiled,               \* c -> what compileComponent returned
  islands,                \* the hydration wrappers of a page being rendered on the server
  browser,                \* i -> what the script of island i has done in the browser
  items                   \* c -> what the codegen() that returns a list of items returned

vars == <<opts, source, nodes, ast, pc, stack, scopedClass, styleNodes, styleTransformPromises,
          rootNode, hasDoctype, nodeModulesMiniCache, module, files, compileOptions,
          state, globLookups, miniGlobCache, resolved, result, error, running, calls,
          compiled, islands, browser, items>>

optimizeVars == <<scopedClass, styleNodes, styleTransformPromises, rootNode, hasDoctype,
                  nodeModulesMiniCache, calls>>
codegenVars == <<module, files, compileOptions, state, globLookups, miniGlobCache,
                 resolved, result, compiled, islands, browser, items>>

----------------------------------------------------------------------------
(* Bounds *)

MaxNodes == 3        \* html nodes below the root Fragment
MaxCss == 1          \* Style nodes of the css tree
MaxRefs == 2         \* markup nodes of a codegen input
MaxCollections == 2  \* import.meta.collection() declarations of a frontmatter
MaxAttrs == 2        \* attributes of the element of an attributes input

----------------------------------------------------------------------------
(* Generic helpers *)

Compiles == DOMAIN pc

Range(s) == {s[i] : i \in 1..Len(s)}

RECURSIVE SeqOfSet(_)
SeqOfSet(S) ==
  IF S = {} THEN <<>>
  ELSE LET m == CHOOSE x \in S : \A y \in S : x <= y
       IN <<m>> \o SeqOfSet(S \ {m})

RECURSIVE Count(_, _)
Count(s, x) ==
  IF s = <<>> THEN 0
  ELSE (IF Head(s) = x THEN 1 ELSE 0) + Count(Tail(s), x)

RECURSIVE Flatten(_)
Flatten(ss) == IF ss = <<>> THEN <<>> ELSE Head(ss) \o Flatten(Tail(ss))

\* indexOf / findIndex, 1-based; 0 when absent
RECURSIVE IndexFrom(_, _, _)
IndexFrom(s, x, k) ==
  IF k > Len(s) THEN 0
  ELSE IF s[k] = x THEN k
  ELSE IndexFrom(s, x, k + 1)

IndexOf(s, x) == IndexFrom(s, x, 1)

InsertAt(s, i, x) == SubSeq(s, 1, i - 1) \o <<x>> \o SubSeq(s, i, Len(s))
RemoveAt(s, i) == SubSeq(s, 1, i - 1) \o SubSeq(s, i + 1, Len(s))

NoError == [kind |-> "none", message |-> <<>>]

----------------------------------------------------------------------------
(* TemplateNodes *)

NoContent == [defined |-> FALSE, styles |-> <<>>]
NoCode == [expr |-> "", appended |-> <<>>]

\* A Text fragment of an attribute value
TextValue(words) ==
  [type |-> "Text", raw |-> words, data |-> words, content |-> NoCode, codeStart |-> NoCode]

\* A MustacheTag fragment {expr}: content is the code the optimizer rewrites,
\* expression.codeStart the code the parser read
MustacheValue(expr) ==
  [type |-> "MustacheTag", raw |-> <<>>, data |-> <<>>,
   content |-> [expr |-> expr, appended |-> <<>>],
   codeStart |-> [expr |-> expr, appended |-> <<>>]]

\* value: "true" | "false" | "undefined" | "list" (then fragments holds the list)
Attr(name, value, fragments) ==
  [type |-> "Attribute", name |-> name, value |-> value, fragments |-> fragments]

Node(type, name, attributes, children, data) ==
  [type |-> type, name |-> name, attributes |-> attributes,
   children |-> children, data |-> data, raw |-> data, content |-> NoContent,
   codeStart |-> <<>>, codeEnd |-> <<>>]

FindAttr(attributes, name) == IndexOf([k \in 1..Len(attributes) |-> attributes[k].name], name)

----------------------------------------------------------------------------
(* styles pass: the scope token *)

\* crypto's sha256 digest in base64, abstracted to a short deterministic digest
\* of the token sequence over the base64 alphabet
B64 == <<"A","B","C","D","E","F","G","H","I","J","K","L","M","N","O","P",
         "Q","R","S","T","U","V","W","X","Y","Z","a","b","c","d","e","f",
         "g","h","i","j","k","l","m","n","o","p","q","r","s","t","u","v",
         "w","x","y","z","0","1","2","3","4","5","6","7","8","9","+","/">>

PathTokens == <<"/", "\\", "proj", "pages", "a.astro", "b.astro">>

TokenCode(tok) == IndexOf(PathTokens, tok)

RECURSIVE Absorb(_, _)
Absorb(h, s) ==
  IF s = <<>> THEN h
  ELSE Absorb((h * 31 + TokenCode(Head(s)) + 7) % 65536, Tail(s))

RECURSIVE Squeeze(_, _)
Squeeze(h, n) ==
  IF n = 0 THEN <<"=">>
  ELSE LET h2 == (h * 73 + 41) % 65536
       IN <<B64[(h2 % 64) + 1]>> \o Squeeze(h2, n - 1)

DigestLen == 11

Sha256Base64(s) == Squeeze(Absorb(5381, s), DigestLen)

\* filename.replace(/\\/g, '/')
ReplaceBackslashes(filename) ==
  [i \in 1..Len(filename) |-> IF filename[i] = "\\" THEN "/" ELSE filename[i]]

\* .replace(/[^A-Za-z0-9-]/g, '')
RECURSIVE StripNonAlnum(_)
StripNonAlnum(s) ==
  IF s = <<>> THEN <<>>
  ELSE (IF Head(s) \in {"+", "/", "="} THEN <<>> ELSE <<Head(s)>>) \o StripNonAlnum(Tail(s))

HashLen == 8

\* .substr(0, 8)
Substr(s, n) == SubSeq(s, 1, IF Len(s) < n THEN Len(s) ELSE n)

RECURSIVE Join(_)
Join(s) == IF s = <<>> THEN "" ELSE Head(s) \o Join(Tail(s))

hashFromFilename(filename) ==
  Join(Substr(StripNonAlnum(Sha256Base64(ReplaceBackslashes(filename))), HashLen))

\* A token hashed from the filename instead of the fileID
ScopedClassOfFilename(o) == "astro-" \o hashFromFilename(o.filename)

ScopedClassFor(o) == "astro-" \o hashFromFilename(o.fileID)

----------------------------------------------------------------------------
(* styles pass: transformStyle *)

NEVER_SCOPED_TAGS ==
  {<<"html">>, <<"head">>, <<"body">>, <<"script">>, <<"style">>, <<"link">>, <<"meta">>}

\* The Map getStyleType; "" is Map.get's undefined
getStyleType(type) ==
  CASE type \in {<<".css">>, <<"css">>, <<"text/css">>} -> "css"
    [] type \in {<<".pcss">>, <<"postcss">>, <<"text/postcss">>} -> "postcss"
    [] type \in {<<".sass">>, <<"sass">>, <<"text/sass">>} -> "sass"
    [] type \in {<<".scss">>, <<"scss">>, <<"text/scss">>} -> "scss"
    [] OTHER -> ""

\* A transform with no default: a tag getStyleType does not list stays unknown
StyleTypeStrict(type) == IF type # <<>> THEN getStyleType(type) ELSE "css"

\* let styleType = 'css'; if (type) styleType = getStyleType.get(type) || styleType
StyleTypeOf(type) ==
  IF type # <<>> /\ getStyleType(type) # "" THEN getStyleType(type) ELSE "css"

UnsupportedStyle(styleType) ==
  [kind |-> "UnsupportedStyle", message |-> <<"Unsupported: <style lang=\"", styleType, "\">">>]

\* sass.renderSync(...).css
SassRender(code) == <<"sass(">> \o code \o <<")">>

\* postcss([astroScopedStyles({className}), autoprefixer()]).process(css)
PostcssScoped(css, className) == <<"scoped(", className, ":">> \o css \o <<")">>

\* A switch whose default branch hands the text to the post-processor as it is
TransformSwitchLenient(p) ==
  CASE p.styleType \in {"sass", "scss"} -> [p EXCEPT !.state = "postcss", !.css = SassRender(p.code)]
    [] OTHER -> [p EXCEPT !.state = "postcss", !.css = p.code]

\* The switch of transformStyle, run once the node_modules lookup is settled
TransformSwitch(p) ==
  CASE p.styleType = "css" -> [p EXCEPT !.state = "postcss", !.css = p.code]
    [] p.styleType \in {"sass", "scss"} -> [p EXCEPT !.state = "postcss", !.css = SassRender(p.code)]
    [] OTHER -> [p EXCEPT !.state = "rejected", !.error = UnsupportedStyle(p.styleType)]

\* transformStyle() up to its first await: the promise it returns
transformStyle(code, type, filename, scoped, cache) ==
  LET p == [code |-> code, type |-> type, styleType |-> StyleTypeOf(type),
            filename |-> filename, scopedClass |-> scoped,
            state |-> "findUp", css |-> <<>>, error |-> NoError]
  IN IF filename \in DOMAIN cache THEN TransformSwitch(p) ELSE p

----------------------------------------------------------------------------
(* styles pass: visitors *)

\* node.children.map(({data}) => data).join('\n')
RECURSIVE JoinLines(_)
JoinLines(datas) ==
  IF datas = <<>> THEN <<>>
  ELSE IF Len(datas) = 1 THEN Head(datas)
  ELSE Head(datas) \o <<"\n">> \o JoinLines(Tail(datas))

StyleCode(heap, n) == JoinLines([k \in 1..Len(heap[n].children) |-> heap[heap[n].children[k]].data])

\* (langAttr && langAttr.value[0] && langAttr.value[0].data) || undefined
LangOf(node) ==
  LET k == FindAttr(node.attributes, "lang")
  IN IF k = 0 THEN <<>>
     ELSE IF node.attributes[k].fragments = <<>> THEN <<>>
     ELSE node.attributes[k].fragments[1].data

\* 3b. append scopedClass to one fragment of class=""
ScopeFragment(v, scoped) ==
  IF v.type = "Text"
    THEN [v EXCEPT !.raw = Append(@, scoped), !.data = Append(@, scoped)]
  ELSE IF v.type = "MustacheTag"
    THEN [v EXCEPT !.content = [@ EXCEPT !.appended = Append(@, scoped)]]
  ELSE v

\* 3. add scoped HTML classes
ScopeAttributes(attributes, scoped) ==
  LET classIndex == FindAttr(attributes, "class")
  IN IF classIndex = 0
       THEN Append(attributes, Attr("class", "list", <<TextValue(<<scoped>>)>>))
     ELSE [attributes EXCEPT ![classIndex] =
             [@ EXCEPT !.fragments = [k \in 1..Len(@) |-> ScopeFragment(@[k], scoped)]]]

\* The closure state of the styles pass
StylesState(c) ==
  [styleNodes |-> styleNodes[c], promises |-> styleTransformPromises[c], rootNode |-> rootNode[c]]

\* An enter that also takes a style element for the root node
StylesHtmlEnterRootAny(c, heap, st, n) ==
  LET node == heap[n]
      code == StyleCode(heap, n)
      st2 == IF node.name = <<"head">> \/ st.rootNode = 0 THEN [st EXCEPT !.rootNode = n] ELSE st
  IN IF node.name = <<"style">>
       THEN IF code = <<>> THEN [heap |-> heap, st |-> st2]
            ELSE [heap |-> heap,
                  st |-> [st2 EXCEPT
                    !.styleNodes = Append(@, n),
                    !.promises = Append(@, transformStyle(code, LangOf(node), opts[c].filename,
                                                          scopedClass[c], nodeModulesMiniCache))]]
     ELSE IF node.name \in NEVER_SCOPED_TAGS THEN [heap |-> heap, st |-> st2]
     ELSE [heap |-> [heap EXCEPT ![n].attributes = ScopeAttributes(@, scopedClass[c])],
           st |-> st2]

\* visitors.html.Element.enter of the styles pass: [heap, st]
StylesHtmlEnter(c, heap, st, n) ==
  LET node == heap[n]
      code == StyleCode(heap, n)
  IN IF node.name = <<"style">>
       THEN IF code = <<>> THEN [heap |-> heap, st |-> st]
            ELSE [heap |-> heap,
                  st |-> [st EXCEPT
                    !.styleNodes = Append(@, n),
                    !.promises = Append(@, transformStyle(code, LangOf(node), opts[c].filename,
                                                          scopedClass[c], nodeModulesMiniCache))]]
     ELSE LET st2 == IF node.name = <<"head">> \/ st.rootNode = 0
                       THEN [st EXCEPT !.rootNode = n] ELSE st
          IN IF node.name \in NEVER_SCOPED_TAGS THEN [heap |-> heap, st |-> st2]
             ELSE [heap |-> [heap EXCEPT ![n].attributes = ScopeAttributes(@, scopedClass[c])],
                   st |-> st2]

\* visitors.css.Style.enter of the styles pass
StylesCssEnter(c, heap, st, n) ==
  LET node == heap[n]
  IN IF ~node.content.defined \/ node.content.styles = <<>> THEN st
     ELSE [st EXCEPT
            !.styleNodes = Append(@, n),
            !.promises = Append(@, transformStyle(node.content.styles, LangOf(node),
                                                  opts[c].filename, scopedClass[c],
                                                  nodeModulesMiniCache))]

----------------------------------------------------------------------------
(* doctype pass *)

dtNode ==
  Node("Element", <<"!doctype">>, <<Attr("html", "true", <<>>)>>, <<>>, <<>>)

\* A doctype pass that inserts behind the html Element
DoctypeHtmlEnterBehind(heap, has, n, parent, index) ==
  IF heap[n].name = <<"html">> /\ ~has
    THEN [heap |-> [Append(heap, dtNode) EXCEPT
                      ![parent].children = InsertAt(@, index + 1, Len(heap) + 1)],
          hasDoctype |-> TRUE]
  ELSE [heap |-> heap, hasDoctype |-> has \/ heap[n].name = <<"!doctype">>]

\* visitors.html.Element.enter of the doctype pass: [heap, hasDoctype]
DoctypeHtmlEnter(heap, has, n, parent, index) ==
  LET has1 == has \/ heap[n].name = <<"!doctype">>
  IN IF heap[n].name = <<"html">> /\ ~has1
       THEN [heap |-> [Append(heap, dtNode) EXCEPT
                         ![parent].children = InsertAt(@, index, Len(heap) + 1)],
             hasDoctype |-> TRUE]
     ELSE [heap |-> heap, hasDoctype |-> has1]

----------------------------------------------------------------------------
(* Documents: the trees the parser hands to optimize *)

\* A <style> of the css tree; lang = <<>> is no lang attribute
CssStyle(lang, styles) ==
  [Node("Style", <<"style">>,
        IF lang = <<>> THEN <<>> ELSE <<Attr("lang", "list", <<TextValue(lang)>>)>>,
        <<>>, <<>>)
   EXCEPT !.content = [defined |-> TRUE, styles |-> styles]]

\* One html node below the root Fragment, by kind
KindNode(kind, children) ==
  CASE kind = "html" -> Node("Element", <<"html">>, <<>>, children, <<>>)
    [] kind = "head" -> Node("Element", <<"head">>, <<>>, children, <<>>)
    [] kind = "div" -> Node("Element", <<"div">>, <<>>, children, <<>>)
    [] kind = "divT" ->
         Node("Element", <<"div">>, <<Attr("class", "list", <<TextValue(<<"a">>)>>)>>,
              children, <<>>)
    [] kind = "divM" ->
         Node("Element", <<"div">>, <<Attr("class", "list", <<MustacheValue("cls")>>)>>,
              children, <<>>)
    [] kind = "divTM" ->
         Node("Element", <<"div">>,
              <<Attr("class", "list", <<TextValue(<<"a">>), MustacheValue("cls")>>)>>,
              children, <<>>)
    [] kind = "doctype" -> Node("Element", <<"!doctype">>, <<Attr("html", "true", <<>>)>>, <<>>, <<>>)
    [] kind = "style" -> Node("Element", <<"style">>, <<>>, children, <<>>)
    [] kind = "styleLess" ->
         Node("Element", <<"style">>, <<Attr("lang", "list", <<TextValue(<<"less">>)>>)>>,
              children, <<>>)
    [] kind = "styleCss" ->
         Node("Element", <<"style">>,
              <<Attr("type", "list", <<TextValue(<<"text/plain">>)>>),
                Attr("lang", "list", <<TextValue(<<"css">>)>>)>>,
              children, <<>>)
    [] kind = "styleExpr" ->
         Node("Element", <<"style">>, <<Attr("type", "list", <<MustacheValue("kind")>>)>>,
              children, <<>>)
    [] kind = "text" -> Node("Text", <<>>, <<>>, <<>>, <<"t">>)
    [] kind = "blank" -> Node("Text", <<>>, <<>>, <<>>, <<" ", "\n">>)
    [] kind = "slot" -> Node("Slot", <<"slot">>, <<>>, children, <<>>)
    [] kind = "expr" ->
         [Node("Expression", <<>>, <<>>, children, <<>>)
            EXCEPT !.codeStart = <<"cond", " && ">>, !.codeEnd = <<" ">>]
    [] kind = "Style" -> CssStyle(<<>>, <<"r">>)
    [] kind = "Comp" -> Node("InlineComponent", <<"Comp">>, <<>>, children, <<>>)
    [] kind = "CompA" ->
         Node("InlineComponent", <<"Comp">>,
              <<Attr("name", "list", <<TextValue(<<"x">>)>>), Attr("on", "true", <<>>)>>,
              children, <<>>)
    [] kind = "Comp:load" -> Node("InlineComponent", <<"Comp", ":", "load">>, <<>>, children, <<>>)
    [] kind = "Comp:idle" -> Node("InlineComponent", <<"Comp", ":", "idle">>, <<>>, children, <<>>)
    [] kind = "Comp:visible" -> Node("InlineComponent", <<"Comp", ":", "visible">>, <<>>, children, <<>>)
    [] kind = "Comp:hover" -> Node("InlineComponent", <<"Comp", ":", "hover">>, <<>>, children, <<>>)
    [] kind = "Comp:" -> Node("InlineComponent", <<"Comp", ":">>, <<>>, children, <<>>)
    [] kind = "Other" -> Node("Element", <<"Other">>, <<>>, children, <<>>)
    [] kind = "Other:load" -> Node("InlineComponent", <<"Other", ":", "load">>, <<>>, children, <<>>)

ReferenceKinds ==
  {"Comp", "CompA", "Comp:load", "Comp:idle", "Comp:visible", "Comp:hover", "Comp:", "Other",
   "Other:load"}

MarkupKinds == {"html", "head", "div", "divT", "divM", "divTM", "doctype", "style", "text"}

\* Which kinds the parser nests under which
Accepts(parentKind, kind) ==
  CASE parentKind \in {"html", "head", "div", "divT", "divM", "divTM", "slot", "expr"} -> TRUE
    [] parentKind \in ReferenceKinds -> TRUE
    [] parentKind \in {"style", "styleLess", "styleCss", "styleExpr"} -> kind = "text"
    [] OTHER -> FALSE

\* The nodes from the root (0) down to node k, through the parent vector
RECURSIVE PathTo(_, _)
PathTo(par, k) == IF k = 0 THEN {0} ELSE {k} \cup PathTo(par, par[k])

\* Documents of n nodes numbered in source order: [n, par, kind]
RECURSIVE Docs(_, _)
Docs(n, kinds) ==
  IF n = 0 THEN {[n |-> 0, par |-> <<>>, kind |-> <<>>]}
  ELSE {[n |-> n, par |-> Append(d.par, a), kind |-> Append(d.kind, k)] :
          <<d, a, k>> \in {t \in Docs(n - 1, kinds) \X (0..(n - 1)) \X kinds :
                            /\ t[2] \in PathTo(t[1].par, n - 1)
                            /\ t[2] = 0 \/ Accepts(t[1].kind[t[2]], t[3])}}

DocsUpTo(n, kinds) == UNION {Docs(m, kinds) : m \in 0..n}

\* The heap of a document: the root Fragment is node 1, html node k is node k + 1,
\* the css tree's Style nodes follow
BuildHeap(d, css) ==
  LET kids(p) == SeqOfSet({k + 1 : k \in {j \in 1..d.n : d.par[j] = p}})
  IN <<Node("Fragment", <<>>, <<>>, kids(0), <<>>)>>
     \o [k \in 1..d.n |-> KindNode(d.kind[k], kids(k))]
     \o css

BuildAst(d, css) == [html |-> 1, css |-> [k \in 1..Len(css) |-> d.n + 1 + k]]

FILE_A == [filename |-> <<"/", "proj", "/", "pages", "/", "a.astro">>,
           fileID |-> <<"pages", "/", "a.astro">>]

NoCache == [f \in {} |-> <<>>]

NoModule == [defined |-> FALSE, body |-> <<>>]
NoState == [filename |-> <<>>, components |-> NoCache, css |-> <<>>,
            importExportStatements |-> {}, dynamicImports |-> NoCache,
            script |-> <<>>, componentPlugins |-> {}, outSource |-> <<>>]
\* outSource: the outSource local of every compileHtml() call in progress, innermost last
NoResult == [defined |-> FALSE, script |-> <<>>, imports |-> {}, html |-> <<>>,
             css |-> [defined |-> FALSE, text |-> <<>>]]
\* The codegen() of items has not run
NoItems == [defined |-> FALSE, items |-> <<>>, error |-> NoError]
\* compileComponent has not returned
NoCompileResult ==
  [defined |-> FALSE, contents |-> [imports |-> {}, script |-> <<>>, html |-> <<>>],
   css |-> [defined |-> FALSE, text |-> <<>>]]

\* The state before optimize() of the compiles cs, given each one's options and document
InitWith(cs, o, heap, tree, cache) ==
  /\ opts = [c \in cs |-> o[c]]
  /\ source = [c \in cs |-> heap[c]]
  /\ nodes = [c \in cs |-> heap[c]]
  /\ ast = [c \in cs |-> tree[c]]
  /\ pc = [c \in cs |-> "parsed"]
  /\ stack = [c \in cs |-> <<>>]
  /\ scopedClass = [c \in cs |-> ""]
  /\ styleNodes = [c \in cs |-> <<>>]
  /\ styleTransformPromises = [c \in cs |-> <<>>]
  /\ rootNode = [c \in cs |-> 0]
  /\ hasDoctype = [c \in cs |-> FALSE]
  /\ nodeModulesMiniCache = cache
  /\ module = [c \in cs |-> NoModule]
  /\ files = NoCache
  /\ compileOptions = [c \in cs |-> [extensions |-> <<>>]]
  /\ state = [c \in cs |-> NoState]
  /\ globLookups = [c \in cs |-> <<>>]
  /\ miniGlobCache = NoCache
  /\ resolved = [c \in cs |-> <<>>]
  /\ result = [c \in cs |-> NoResult]
  /\ error = [c \in cs |-> NoError]
  /\ running = 0
  /\ calls = [c \in cs |-> <<>>]
  /\ compiled = [c \in cs |-> NoCompileResult]
  /\ islands = <<>>
  /\ browser = <<>>
  /\ items = [c \in cs |-> NoItems]

NODE_MODULES == <<"/", "proj", "/", "node_modules">>

\* Markup of every shape, with or without one plain stylesheet in the css tree
InitMarkup ==
  \E d \in DocsUpTo(MaxNodes, MarkupKinds), css \in {<<>>, <<CssStyle(<<>>, <<"r">>)>>} :
    InitWith({1}, <<FILE_A>>, <<BuildHeap(d, css)>>, <<BuildAst(d, css)>>, NoCache)

\* The language tags of <style lang="">, the keys of getStyleType and others
LangTags ==
  {<<>>, <<"css">>, <<".css">>, <<"text/css">>, <<"scss">>, <<".scss">>, <<"text/scss">>,
   <<"sass">>, <<".sass">>, <<"text/sass">>, <<"postcss">>, <<".pcss">>, <<"text/postcss">>,
   <<"less">>, <<"stylus">>}

RECURSIVE SeqsUpTo(_, _)
SeqsUpTo(S, n) ==
  IF n = 0 THEN {<<>>}
  ELSE SeqsUpTo(S, n - 1) \cup {Append(s, x) : <<s, x>> \in {t \in SeqsUpTo(S, n - 1) \X S : Len(t[1]) = n - 1}}

StyleDocs ==
  {[n |-> 1, par |-> <<0>>, kind |-> <<"div">>],
   [n |-> 1, par |-> <<0>>, kind |-> <<"text">>],
   [n |-> 3, par |-> <<0, 1, 2>>, kind |-> <<"div", "styleLess", "text">>],
   [n |-> 3, par |-> <<0, 1, 2>>, kind |-> <<"div", "styleCss", "text">>],
   [n |-> 3, par |-> <<0, 1, 2>>, kind |-> <<"div", "styleExpr", "text">>]}

\* Stylesheets of every language tag, in a process that has or has not yet
\* located node_modules for the file
InitStyles ==
  \E d \in StyleDocs,
     css \in SeqsUpTo({CssStyle(l, <<"r">>) : l \in LangTags} \cup {CssStyle(<<>>, <<>>)}, MaxCss),
     cache \in {NoCache, [f \in {FILE_A.filename} |-> NODE_MODULES]} :
    InitWith({1}, <<FILE_A>>, <<BuildHeap(d, css)>>, <<BuildAst(d, css)>>, cache)

FileIDs == {<<"pages", "/", "a.astro">>, <<"pages", "\\", "a.astro">>, <<"pages", "/", "b.astro">>}
Filenames == {<<"/", "proj", "/", "pages", "/", "a.astro">>, <<"/", "proj", "/", "pages", "/", "b.astro">>}

PairDoc == [n |-> 1, par |-> <<0>>, kind |-> <<"divT">>]
PairCss == {<<CssStyle(<<>>, <<"r">>)>>, <<CssStyle(<<"scss">>, <<"q">>)>>}

\* Two optimizer instances in one process
InitPair ==
  \E o \in [{1, 2} -> [filename : Filenames, fileID : FileIDs]], css \in [{1, 2} -> PairCss] :
    InitWith({1, 2}, o, [c \in {1, 2} |-> BuildHeap(PairDoc, css[c])],
             [c \in {1, 2} |-> BuildAst(PairDoc, css[c])], NoCache)

InitOptimize == InitMarkup \/ InitStyles \/ InitPair

----------------------------------------------------------------------------
(* optimize(): the walks *)

\* A frame of the walker: visit(node) is in its loop over node.children at index i
\* (nested: the frame is a compileHtml() call made for the child of an Expression)
Frame(node, i) == [node |-> node, i |-> i, nested |-> FALSE]

Top(c) == stack[c][Len(stack[c])]

\* optimize() is called: the passes are created and the css walk starts
Optimize(c) ==
  /\ pc[c] = "parsed"
  /\ running \in {0, c}
  /\ running' = c
  /\ pc' = [pc EXCEPT ![c] = "cssWalk"]
  /\ stack' = [stack EXCEPT ![c] = <<Frame(0, 1)>>]
  /\ scopedClass' = [scopedClass EXCEPT ![c] = ScopedClassFor(opts[c])]
  /\ styleNodes' = [styleNodes EXCEPT ![c] = <<>>]
  /\ styleTransformPromises' = [styleTransformPromises EXCEPT ![c] = <<>>]
  /\ rootNode' = [rootNode EXCEPT ![c] = 0]
  /\ hasDoctype' = [hasDoctype EXCEPT ![c] = FALSE]
  /\ UNCHANGED <<opts, source, nodes, ast, nodeModulesMiniCache, error, calls>>
  /\ UNCHANGED codegenVars

\* walkAstWithVisitors(ast.css, cssVisitors): enter and leave of one Style node
CssVisit(c) ==
  /\ pc[c] = "cssWalk"
  /\ running = c
  /\ Top(c).i <= Len(ast[c].css)
  /\ LET st == StylesCssEnter(c, nodes[c], StylesState(c), ast[c].css[Top(c).i])
     IN /\ styleNodes' = [styleNodes EXCEPT ![c] = st.styleNodes]
        /\ styleTransformPromises' = [styleTransformPromises EXCEPT ![c] = st.promises]
  /\ calls' = [calls EXCEPT ![c] =
                 Append(@, [pass |-> "styles", event |-> "enter", tree |-> "css",
                            node |-> ast[c].css[Top(c).i]])]
  /\ stack' = [stack EXCEPT ![c] = <<Frame(0, Top(c).i + 1)>>]
  /\ UNCHANGED <<opts, source, nodes, ast, pc, scopedClass, rootNode, hasDoctype,
                 nodeModulesMiniCache, error, running>>
  /\ UNCHANGED codegenVars

\* The css walk is over; walkAstWithVisitors(ast.html, htmlVisitors) enters the root
HtmlWalk(c) ==
  /\ pc[c] = "cssWalk"
  /\ running = c
  /\ Top(c).i > Len(ast[c].css)
  /\ pc' = [pc EXCEPT ![c] = "htmlWalk"]
  /\ stack' = [stack EXCEPT ![c] = <<Frame(ast[c].html, 1)>>]
  /\ UNCHANGED <<opts, source, nodes, ast, error, running>>
  /\ UNCHANGED optimizeVars
  /\ UNCHANGED codegenVars

\* The walker's loop over node.children: true while a child is left to visit
HasNext(c) == Top(c).i <= Len(nodes[c][Top(c).node].children)

\* collection.enter.get(type): the passes whose enter callback is registered for a
\* node type of the html tree, in registration order
EnterVisitors(type) == IF type = "Element" THEN <<"styles", "doctype">> ELSE <<>>

\* The calls fn(node, parent, key, index) that the walker's enter makes for node n
Callbacks(type, n) ==
  [k \in 1..Len(EnterVisitors(type)) |->
     [pass |-> EnterVisitors(type)[k], event |-> "enter", tree |-> "html", node |-> n]]

\* The callbacks of an Element's enter with a doctype flag that all compiles of
\* the process share
ElementEnterSharedFlag(c, n, parent, index) ==
  LET a == StylesHtmlEnter(c, nodes[c], StylesState(c), n)
      b == DoctypeHtmlEnter(a.heap, \E k \in Compiles : hasDoctype[k], n, parent, index)
  IN [heap |-> b.heap, st |-> a.st, hasDoctype |-> b.hasDoctype]

\* The callbacks registered for an Element's enter, in registration order
\* (styles, doctype): [heap, st, hasDoctype]
ElementEnter(c, n, parent, index) ==
  LET a == StylesHtmlEnter(c, nodes[c], StylesState(c), n)
      b == DoctypeHtmlEnter(a.heap, hasDoctype[c], n, parent, index)
  IN [heap |-> b.heap, st |-> a.st, hasDoctype |-> b.hasDoctype]

\* walk(): visit(value[i], node, key, i) enters the child at the loop index
HtmlEnter(c) ==
  /\ pc[c] = "htmlWalk"
  /\ running = c
  /\ HasNext(c)
  /\ LET parent == Top(c).node
         index == Top(c).i
         n == nodes[c][parent].children[index]
         r == IF nodes[c][n].type = "Element"
                THEN ElementEnter(c, n, parent, index)
                ELSE [heap |-> nodes[c], st |-> StylesState(c), hasDoctype |-> hasDoctype[c]]
     IN /\ nodes' = [nodes EXCEPT ![c] = r.heap]
        /\ styleNodes' = [styleNodes EXCEPT ![c] = r.st.styleNodes]
        /\ styleTransformPromises' = [styleTransformPromises EXCEPT ![c] = r.st.promises]
        /\ rootNode' = [rootNode EXCEPT ![c] = r.st.rootNode]
        /\ hasDoctype' = [hasDoctype EXCEPT ![c] = r.hasDoctype]
        /\ calls' = [calls EXCEPT ![c] = @ \o Callbacks(nodes[c][n].type, n)]
        /\ stack' = [stack EXCEPT ![c] = Append(@, Frame(n, 1))]
  /\ UNCHANGED <<opts, source, ast, pc, scopedClass, nodeModulesMiniCache, error, running>>
  /\ UNCHANGED codegenVars

\* The frames below the top one, the loop of the parent stepped to its next index
Return(c) ==
  LET rest == SubSeq(stack[c], 1, Len(stack[c]) - 1)
  IN [rest EXCEPT ![Len(rest)].i = @ + 1]

\* walk(): a node's children are exhausted, the node is left (no pass registers a
\* leave callback) and the parent's loop goes on
HtmlLeave(c) ==
  /\ pc[c] = "htmlWalk"
  /\ running = c
  /\ ~HasNext(c)
  /\ Len(stack[c]) > 1
  /\ stack' = [stack EXCEPT ![c] = Return(c)]
  /\ UNCHANGED <<opts, source, nodes, ast, pc, error, running>>
  /\ UNCHANGED optimizeVars
  /\ UNCHANGED codegenVars

\* const optimizers = [optimizeStyles(opts), optimizeDoctype(opts), optimizeModuleScripts(opts)]
Optimizers == <<"styles", "doctype", "moduleScripts">>

\* finalizers.map((fn) => fn()): the finalize() of every pass, in registration order
FinalizeCalls(passes) ==
  [k \in 1..Len(passes) |-> [pass |-> passes[k], event |-> "finalize", tree |-> "", node |-> 0]]

\* The end of a walk that calls the finalize() of the passes with visitors only
FinalizersOfVisitors(c) ==
  /\ pc[c] = "htmlWalk"
  /\ running = c
  /\ ~HasNext(c)
  /\ Len(stack[c]) = 1
  /\ stack' = [stack EXCEPT ![c] = <<>>]
  /\ pc' = [pc EXCEPT ![c] = "finalize"]
  /\ running' = 0
  /\ calls' = [calls EXCEPT ![c] = @ \o FinalizeCalls(<<"styles", "doctype">>)]
  /\ UNCHANGED <<opts, source, nodes, ast, error>>
  /\ UNCHANGED <<scopedClass, styleNodes, styleTransformPromises, rootNode, hasDoctype,
                 nodeModulesMiniCache>>
  /\ UNCHANGED codegenVars

\* The html walk is over: every finalize() is called and optimize() awaits them all
Finalizers(c) ==
  /\ pc[c] = "htmlWalk"
  /\ running = c
  /\ ~HasNext(c)
  /\ Len(stack[c]) = 1
  /\ stack' = [stack EXCEPT ![c] = <<>>]
  /\ pc' = [pc EXCEPT ![c] = "finalize"]
  /\ running' = 0
  /\ calls' = [calls EXCEPT ![c] = @ \o FinalizeCalls(Optimizers)]
  /\ UNCHANGED <<opts, source, nodes, ast, error>>
  /\ UNCHANGED <<scopedClass, styleNodes, styleTransformPromises, rootNode, hasDoctype,
                 nodeModulesMiniCache>>
  /\ UNCHANGED codegenVars

----------------------------------------------------------------------------
(* optimize(): the asynchronous part *)

\* await findUp('node_modules', ...) of one transformStyle() settles
FindUp(c, k, found) ==
  /\ running = 0
  /\ pc[c] \in {"finalize", "failed"}
  /\ k \in 1..Len(styleTransformPromises[c])
  /\ styleTransformPromises[c][k].state = "findUp"
  /\ nodeModulesMiniCache' =
       IF found
         THEN [f \in DOMAIN nodeModulesMiniCache \cup {opts[c].filename} |->
                 IF f = opts[c].filename THEN NODE_MODULES ELSE nodeModulesMiniCache[f]]
         ELSE nodeModulesMiniCache
  /\ styleTransformPromises' =
       [styleTransformPromises EXCEPT ![c][k] = TransformSwitch(@)]
  /\ UNCHANGED <<opts, source, nodes, ast, pc, stack, scopedClass, styleNodes, rootNode, hasDoctype,
                 error, running, calls>>
  /\ UNCHANGED codegenVars

\* await postcss(...).process(css) of one transformStyle() settles
Postcss(c, k) ==
  /\ running = 0
  /\ pc[c] \in {"finalize", "failed"}
  /\ k \in 1..Len(styleTransformPromises[c])
  /\ styleTransformPromises[c][k].state = "postcss"
  /\ styleTransformPromises' =
       [styleTransformPromises EXCEPT ![c][k] =
          [@ EXCEPT !.state = "resolved", !.css = PostcssScoped(@, styleTransformPromises[c][k].scopedClass)]]
  /\ UNCHANGED <<opts, source, nodes, ast, pc, stack, scopedClass, styleNodes, rootNode, hasDoctype,
                 nodeModulesMiniCache, error, running, calls>>
  /\ UNCHANGED codegenVars

\* 1. transform one collected <style> node with its result
UpdateStyleNode(heap, n, css) ==
  LET node == heap[n]
      isHeadStyle == ~node.content.defined
      fresh == Len(heap) + 1
      heap1 == IF isHeadStyle
                 THEN [Append(heap, [heap[node.children[1]] EXCEPT !.data = css])
                         EXCEPT ![n].children = <<fresh>>]
                 ELSE [heap EXCEPT ![n].content.styles = css]
      attrs == heap1[n].attributes
      styleTypeIndex == FindAttr(attrs, "type")
      attrs1 == IF styleTypeIndex # 0
                  THEN [attrs EXCEPT ![styleTypeIndex].fragments[1].raw = <<"text/css">>,
                                     ![styleTypeIndex].fragments[1].data = <<"text/css">>]
                  ELSE Append(attrs, Attr("type", "list", <<TextValue(<<"text/css">>)>>))
      styleLangIndex == FindAttr(attrs1, "lang")
      attrs2 == IF styleLangIndex # 0 THEN RemoveAt(attrs1, styleLangIndex) ELSE attrs1
  IN [heap1 EXCEPT ![n].attributes = attrs2]

RECURSIVE UpdateStyleNodes(_, _, _, _)
UpdateStyleNodes(heap, sn, promises, n) ==
  IF n > Len(sn) THEN heap
  ELSE UpdateStyleNodes(UpdateStyleNode(heap, sn[n], promises[n].css), sn, promises, n + 1)

\* 2. inject finished <style> tags into root node
InjectStyles(heap, sn, root) == [heap EXCEPT ![root].children = sn \o @]

Rejected(c) == {k \in 1..Len(styleTransformPromises[c]) : styleTransformPromises[c][k].state = "rejected"}
AllResolved(c) == \A k \in 1..Len(styleTransformPromises[c]) : styleTransformPromises[c][k].state = "resolved"

\* A finalize() that waits for every transform to settle and goes on whatever
\* each one gave
StylesFinalizeSettled(c) ==
  /\ running = 0
  /\ pc[c] = "finalize"
  /\ \A k \in 1..Len(styleTransformPromises[c]) :
       styleTransformPromises[c][k].state \in {"resolved", "rejected"}
  /\ IF rootNode[c] = 0
       THEN /\ error' = [error EXCEPT ![c] = [kind |-> "NoRootNode", message |-> <<"No root node found">>]]
            /\ pc' = [pc EXCEPT ![c] = "failed"]
            /\ UNCHANGED nodes
     ELSE /\ nodes' = [nodes EXCEPT ![c] =
                         InjectStyles(UpdateStyleNodes(@, styleNodes[c], styleTransformPromises[c], 1),
                                      styleNodes[c], rootNode[c])]
          /\ pc' = [pc EXCEPT ![c] = "optimized"]
          /\ UNCHANGED error
  /\ UNCHANGED <<opts, source, ast, stack, running>>
  /\ UNCHANGED optimizeVars
  /\ UNCHANGED codegenVars

\* finalize() of the styles pass goes on after await Promise.all(styleTransformPromises),
\* and with it optimize() after await Promise.all(finalizers)
StylesFinalize(c) ==
  /\ running = 0
  /\ pc[c] = "finalize"
  /\ Rejected(c) # {} \/ AllResolved(c)
  /\ IF Rejected(c) # {}
       THEN /\ error' = [error EXCEPT ![c] =
                           styleTransformPromises[c][CHOOSE k \in Rejected(c) : \A j \in Rejected(c) : k <= j].error]
            /\ pc' = [pc EXCEPT ![c] = "failed"]
            /\ UNCHANGED nodes
     ELSE IF rootNode[c] = 0
       THEN /\ error' = [error EXCEPT ![c] = [kind |-> "NoRootNode", message |-> <<"No root node found">>]]
            /\ pc' = [pc EXCEPT ![c] = "failed"]
            /\ UNCHANGED nodes
     ELSE /\ nodes' = [nodes EXCEPT ![c] =
                         InjectStyles(UpdateStyleNodes(@, styleNodes[c], styleTransformPromises[c], 1),
                                      styleNodes[c], rootNode[c])]
          /\ pc' = [pc EXCEPT ![c] = "optimized"]
          /\ UNCHANGED error
  /\ UNCHANGED <<opts, source, ast, stack, running>>
  /\ UNCHANGED optimizeVars
  /\ UNCHANGED codegenVars

NextOptimize ==
  \/ \E c \in Compiles : Optimize(c)
  \/ \E c \in Compiles : CssVisit(c)
  \/ \E c \in Compiles : HtmlWalk(c)
  \/ \E c \in Compiles : HtmlEnter(c)
  \/ \E c \in Compiles : HtmlLeave(c)
  \/ \E c \in Compiles : Finalizers(c)
  \/ \E c \in Compiles : \E k \in DOMAIN styleTransformPromises[c], found \in BOOLEAN : FindUp(c, k, found)
  \/ \E c \in Compiles : \E k \in DOMAIN styleTransformPromises[c] : Postcss(c, k)
  \/ \E c \in Compiles : StylesFinalize(c)

SpecOptimize == InitOptimize /\ [][NextOptimize]_vars

----------------------------------------------------------------------------
(* Reading a tree *)

\* The ids of the nodes of the tree under root (root included)
RECURSIVE Reach(_, _)
Reach(heap, S) ==
  LET next == S \cup UNION {Range(heap[n].children) : n \in S}
  IN IF next = S THEN S ELSE Reach(heap, next)

TreeNodes(heap, root) == Reach(heap, {root})

\* The places <<parent, index>> of the tree's children lists that hold a node with P
Places(heap, root, P(_)) ==
  {pl \in UNION {{<<n, i>> : i \in 1..Len(heap[n].children)} : n \in TreeNodes(heap, root)} :
     P(heap[heap[pl[1]].children[pl[2]]])}

IsElementNamed(node, name) == node.type = "Element" /\ node.name = name

\* What the expressions of the markup evaluate to when the page renders
ExprValue(expr) == IF expr = "" THEN <<>> ELSE <<"dyn">>

\* The class list an attribute value renders to
RECURSIVE ResolvedWords(_)
ResolvedWords(fragments) ==
  IF fragments = <<>> THEN <<>>
  ELSE LET v == Head(fragments)
       IN (IF v.type = "Text" THEN v.data
           ELSE ExprValue(v.content.expr) \o v.content.appended)
          \o ResolvedWords(Tail(fragments))

ResolvedClass(node) ==
  LET k == FindAttr(node.attributes, "class")
  IN IF k = 0 THEN <<>> ELSE ResolvedWords(node.attributes[k].fragments)

Scoped(node) == node.type = "Element" /\ node.name \notin NEVER_SCOPED_TAGS

Optimized(c) == pc[c] = "optimized"

----------------------------------------------------------------------------
(* C1 *)

\* C1: after optimize, every Element whose tag is not in NEVER_SCOPED_TAGS has a
\* class attribute whose resolved value holds the scope token exactly once,
\* whatever the shape of its class attribute and wherever it sits in the tree.
C1_TokenExactlyOnce ==
  \A c \in Compiles :
    Optimized(c) =>
      \A n \in TreeNodes(nodes[c], ast[c].html) :
        Scoped(nodes[c][n]) =>
          /\ FindAttr(nodes[c][n].attributes, "class") # 0
          /\ Count(ResolvedClass(nodes[c][n]), scopedClass[c]) = 1

----------------------------------------------------------------------------
(* C2 *)

HtmlPlaces(heap, root) == Places(heap, root, LAMBDA node : IsElementNamed(node, <<"html">>))
DoctypePlaces(heap, root) == Places(heap, root, LAMBDA node : IsElementNamed(node, <<"!doctype">>))

\* The parsed tree holds exactly one html Element and no !doctype Element
OneHtmlNoDoctype(c) ==
  /\ Cardinality(HtmlPlaces(source[c], ast[c].html)) = 1
  /\ DoctypePlaces(source[c], ast[c].html) = {}

\* C2: after optimize of a tree with exactly one html Element and no !doctype
\* Element, the tree holds exactly one !doctype Element, and it is the sibling
\* immediately before the html Element in the same children list.
C2_OneDoctypeBeforeHtml ==
  \A c \in Compiles :
    (pc[c] \in {"optimized", "failed"} /\ OneHtmlNoDoctype(c)) =>
      /\ Cardinality(DoctypePlaces(nodes[c], ast[c].html)) = 1
      /\ \A pl \in DoctypePlaces(nodes[c], ast[c].html) :
           <<pl[1], pl[2] + 1>> \in HtmlPlaces(nodes[c], ast[c].html)

\* An optimized document <parent>..<html>..</html>..</parent> with the doctype in place
C2_Witness ==
  \E c \in Compiles :
    /\ Optimized(c)
    /\ OneHtmlNoDoctype(c)
    /\ \E pl \in DoctypePlaces(nodes[c], ast[c].html) : pl[1] # ast[c].html /\ pl[2] > 1

----------------------------------------------------------------------------
(* C5 *)

\* The words of the class attribute of a node
ClassWords(node) ==
  LET k == FindAttr(node.attributes, "class")
      fr == IF k = 0 THEN <<>> ELSE node.attributes[k].fragments
  IN UNION {Range(fr[i].data) \cup Range(fr[i].raw) \cup Range(fr[i].content.appended) : i \in 1..Len(fr)}

\* The words the optimizer has put into class attributes of the parsed nodes
InjectedTokens(c) ==
  UNION {ClassWords(nodes[c][n]) \ ClassWords(source[c][n]) : n \in DOMAIN source[c]}

\* The scopedClass of every transformStyle() call made
PassedTokens(c) == {styleTransformPromises[c][k].scopedClass : k \in DOMAIN styleTransformPromises[c]}

SameFileID(c1, c2) == ReplaceBackslashes(opts[c1].fileID) = ReplaceBackslashes(opts[c2].fileID)

\* C5: two optimizer instances whose fileIDs are equal up to the direction of
\* the slashes inject one and the same token into every class attribute and pass
\* it to every stylesheet transform, whatever their filenames and documents.
C5_TokenFromFileIDOnly ==
  \A c1 \in Compiles, c2 \in Compiles :
    SameFileID(c1, c2) =>
      Cardinality(InjectedTokens(c1) \cup PassedTokens(c1)
                  \cup InjectedTokens(c2) \cup PassedTokens(c2)) <= 1

\* Two instances with fileIDs a\b and a/b, different filenames and different
\* stylesheets have both scoped a class attribute and called transformStyle
C5_Witness ==
  \E c1 \in Compiles, c2 \in Compiles :
    /\ SameFileID(c1, c2)
    /\ opts[c1].fileID # opts[c2].fileID
    /\ opts[c1].filename # opts[c2].filename
    /\ source[c1] # source[c2]
    /\ InjectedTokens(c1) # {} /\ InjectedTokens(c2) # {}
    /\ PassedTokens(c1) # {} /\ PassedTokens(c2) # {}

----------------------------------------------------------------------------
(* C8 *)

Promises(c) == Range(styleTransformPromises[c])

Compiled(p) == p.state \in {"postcss", "resolved"}

----------------------------------------------------------------------------
(* codegen: text helpers *)

Last(s) == s[Len(s)]
Front(s) == SubSeq(s, 1, Len(s) - 1)

\* String.prototype.includes, on token sequences
Contains(s, sub) == \E k \in 0..(Len(s) - Len(sub)) : SubSeq(s, k + 1, k + Len(sub)) = sub

\* Array.prototype.splice(i, 1), 1-based
Splice1(s, i) == IF i > Len(s) THEN s ELSE RemoveAt(s, i)

\* JSON.stringify of a string
Escape(tok) == IF tok = "\"" THEN "\\\"" ELSE tok
JSONString(text) == <<"\"">> \o [k \in 1..Len(text) |-> Escape(text[k])] \o <<"\"">>

\* The tokens that are all white space
Blank == {" ", "\n"}
Trim(text) == SelectSeq(text, LAMBDA tok : tok \notin Blank)

\* name.split(':'): the pieces between the ':' tokens
RECURSIVE SplitFrom(_, _, _)
SplitFrom(name, k, cur) ==
  IF k > Len(name) THEN <<cur>>
  ELSE IF name[k] = ":" THEN <<cur>> \o SplitFrom(name, k + 1, "")
  ELSE SplitFrom(name, k + 1, cur \o name[k])

Split(name) == SplitFrom(name, 1, "")

\* An insertion-ordered map as a sequence of [key, val]: get and set
MapIndex(m, key) == IndexOf([k \in 1..Len(m) |-> m[k].key], key)
MapSet(m, key, val) ==
  IF MapIndex(m, key) = 0 THEN Append(m, [key |-> key, val |-> val])
  ELSE [m EXCEPT ![MapIndex(m, key)].val = val]

\* obj[key] of a function used as an object: "" is undefined
Lookup(obj, key) == IF key \in DOMAIN obj THEN obj[key] ELSE ""

\* obj[key] = val
Assign(obj, key, val) == [k \in DOMAIN obj \cup {key} |-> IF k = key THEN val ELSE obj[k]]

\* The tokens a path can end with that path.posix.extname takes for an extension
Extensions == {".astro", ".jsx", ".tsx", ".vue", ".svelte", ".md", ".json", ".js"}

\* path.posix.extname and path.posix.basename(url, ext) of <<dir.., base, ext>>
Extname(url) == IF url # <<>> /\ Last(url) \in Extensions THEN Last(url) ELSE ""
Basename(url, ext) ==
  IF url = <<>> THEN ""
  ELSE IF ext # "" /\ Last(url) = ext THEN (IF Len(url) > 1 THEN url[Len(url) - 1] ELSE "")
  ELSE Last(url)

\* internalImport(internalPath)
internalImport(internalPath) == "/_astro_internal/" \o internalPath

----------------------------------------------------------------------------
(* codegen: the frontmatter *)

\* The init of a VariableDeclarator: none, import.meta.collection(arg) or another expression
NoInit == [kind |-> "none", argType |-> "", value |-> <<>>, code |-> <<>>]
CollectionCall(argType, value) ==
  [kind |-> "import.meta.collection", argType |-> argType, value |-> value,
   code |-> <<"import.meta.collection('">> \o value \o <<"')">>]
OtherInit(code) == [kind |-> "expression", argType |-> "", value |-> <<>>, code |-> code]

VariableDeclarator(idType, id, init) == [idType |-> idType, id |-> id, init |-> init]

\* What babelGenerator prints for the declarators of a declaration
RECURSIVE DeclaratorsCode(_)
DeclaratorsCode(ds) ==
  IF ds = <<>> THEN <<>>
  ELSE <<Head(ds).id>>
       \o (IF Head(ds).init.kind = "none" THEN <<>> ELSE <<" = ">> \o Head(ds).init.code)
       \o (IF Len(ds) > 1 THEN <<", ">> ELSE <<>>)
       \o DeclaratorsCode(Tail(ds))

\* The statements of program.body; text is the statement as the source has it
ImportDeclaration(local, url) ==
  [type |-> "ImportDeclaration", local |-> local, source |-> url, declaration |-> "",
   declarations |-> <<>>,
   text |-> <<"import ", local, " from '">> \o url \o <<"';">>]
ExportNamedDeclaration(declaration, declarations) ==
  [type |-> "ExportNamedDeclaration", local |-> "", source |-> <<>>, declaration |-> declaration,
   declarations |-> declarations,
   text |-> IF declaration = "VariableDeclaration"
              THEN <<"export ", "let ">> \o DeclaratorsCode(declarations) \o <<";">>
              ELSE <<"export ", "function ", "f", "() {}">>]
VariableDeclaration(declarations) ==
  [type |-> "VariableDeclaration", local |-> "", source |-> <<>>, declaration |-> "",
   declarations |-> declarations,
   text |-> <<"const ">> \o DeclaratorsCode(declarations) \o <<";">>]
ExpressionStatement(code) ==
  [type |-> "ExpressionStatement", local |-> "", source |-> <<>>, declaration |-> "", declarations |-> <<>>,
   text |-> code \o <<";">>]

\* isImportMetaDeclaration(declaration, 'collection')
isImportMetaDeclaration(declaration) == declaration.init.kind = "import.meta.collection"

StringLiteralsOnly(filename) ==
  [kind |-> "StringLiteralsOnly",
   message |-> <<"[import.meta.collection] Only string literals allowed, ex: ",
                 "import.meta.collection('./post/*.md')", "\n  ">> \o filename]

\* The locals of compileModule while it sorts program.body
NoLocals(body) ==
  [body |-> body, componentImports |-> <<>>, componentProps |-> <<>>, componentExports |-> <<>>,
   collectionImports |-> <<>>, error |-> NoError]

\* case 'VariableDeclaration': for (const declaration of node.declarations)
RECURSIVE DeclarationsLoop(_, _, _, _)
DeclarationsLoop(L, i, declarations, filename) ==
  IF declarations = <<>> THEN L
  ELSE LET declaration == Head(declarations)
       IN IF ~isImportMetaDeclaration(declaration) \/ declaration.idType # "Identifier"
            THEN DeclarationsLoop(L, i, Tail(declarations), filename)
          ELSE IF declaration.init.argType # "StringLiteral"
            THEN [L EXCEPT !.error = StringLiteralsOnly(filename)]
          ELSE DeclarationsLoop(
                 [L EXCEPT !.collectionImports = MapSet(@, declaration.id, declaration.init.value),
                           !.body = Splice1(@, i)],
                 i, Tail(declarations), filename)

\* while (--i >= 0): body[i] is sorted into imports, props, exports, collections
RECURSIVE BodyLoop(_, _, _)
BodyLoop(L, i, filename) ==
  IF i < 1 \/ L.error # NoError THEN L
  ELSE LET node == L.body[i]
           L1 == CASE node.type = "ImportDeclaration" ->
                        [L EXCEPT !.componentImports = Append(@, node), !.body = Splice1(@, i)]
                   [] node.type = "ExportNamedDeclaration" ->
                        IF node.declaration # "VariableDeclaration" THEN L
                        ELSE IF node.declarations[1].id \in {"__layout", "__content"}
                          THEN [L EXCEPT !.componentExports = Append(@, node), !.body = Splice1(@, i)]
                        ELSE [L EXCEPT !.componentProps = Append(@, node.declarations[1]),
                                       !.body = Splice1(@, i)]
                   [] node.type = "VariableDeclaration" ->
                        DeclarationsLoop(L, i, node.declarations, filename)
                   [] OTHER -> L
       IN BodyLoop(L1, i - 1, filename)

defaultExtensions ==
  [ext \in {".astro", ".jsx", ".vue", ".svelte"} |->
     CASE ext = ".astro" -> "astro"
       [] ext = ".jsx" -> "react"
       [] ext = ".vue" -> "vue"
       [] ext = ".svelte" -> "svelte"]

\* for (const componentImport of componentImports): [components, componentPlugins, statements]
RECURSIVE ComponentsLoop(_, _, _)
ComponentsLoop(R, componentImports, extensions) ==
  IF componentImports = <<>> THEN R
  ELSE LET importUrl == Head(componentImports).source
           componentType == Extname(importUrl)
           componentName == Basename(importUrl, componentType)
           ext == Lookup(extensions, componentType)
           plugin == IF ext # "" THEN ext ELSE Lookup(defaultExtensions, componentType)
       IN ComponentsLoop(
            [components |-> Assign(R.components, componentName,
                                   [type |-> componentType, plugin |-> plugin, url |-> importUrl]),
             componentPlugins |-> IF plugin # "" THEN R.componentPlugins \cup {plugin}
                                  ELSE R.componentPlugins,
             statements |-> R.statements \cup {Head(componentImports).text}],
            Tail(componentImports), extensions)

\* propsStatement
RECURSIVE PropsList(_)
PropsList(componentProps) ==
  IF componentProps = <<>> THEN <<>>
  ELSE <<Head(componentProps).id>>
       \o (IF Head(componentProps).init.kind # "none"
             THEN <<"= ">> \o Head(componentProps).init.code ELSE <<>>)
       \o <<",">> \o PropsList(Tail(componentProps))

PropsStatement(componentProps) ==
  IF Len(componentProps) > 0 THEN <<"let {">> \o PropsList(componentProps) \o <<"} = props;\n">>
  ELSE <<>>

----------------------------------------------------------------------------
(* codegen: collections *)

\* spec.endsWith('.md')
EndsWithMd(spec) == spec # <<>> /\ Last(spec) = ".md"

OnlyMdSupported(spec) ==
  [kind |-> "OnlyMdSupported",
   message |-> <<"Only *.md pages are supported for import.meta.collection(). Attempted to load \"">>
               \o spec \o <<"\"">>]

\* The message without the source file
NoFilesMatchedPattern(spec, filename) ==
  [kind |-> "NoFilesMatched", message |-> <<"No files matched \"">> \o spec \o <<"\"">>]

NoFilesMatched(spec, filename) ==
  [kind |-> "NoFilesMatched",
   message |-> <<"No files matched \"">> \o spec \o <<"\" from ">> \o filename]

\* glob(spec, {cwd: path.dirname(state.filename), filesOnly: true})
Glob(fs, spec) == IF spec \in DOMAIN fs THEN fs[spec] ELSE <<>>

\* found.map(...): './' is put before a path that starts with neither 'http' nor '.'
ImportPath(importPath) ==
  IF importPath # <<>> /\ Head(importPath) \in {"http://", "https://", "./", "../"} THEN importPath
  ELSE <<"./">> \o importPath

\* importPath.replace(/\.md$/, '')
StripMd(importPath) == IF EndsWithMd(importPath) THEN Front(importPath) ELSE importPath

\* The static import of file j (0-based) of a collection
CollectionImport(namespace, j, importPath) ==
  <<"const ", namespace, "_", ToString(j), " = import('">> \o importPath
  \o <<"').then((m) => ({ ...m.__content, url: '">> \o StripMd(importPath) \o <<"' }));">>

RECURSIVE JoinNames(_, _, _)
JoinNames(namespace, j, n) ==
  IF j >= n THEN <<>>
  ELSE <<namespace, "_", ToString(j)>> \o (IF j + 1 < n THEN <<",">> ELSE <<>>)
       \o JoinNames(namespace, j + 1, n)

DataStatement(namespace, found) ==
  <<"const ", namespace, " = await Promise.all([">> \o JoinNames(namespace, 0, Len(found)) \o <<"]);\n">>

\* A turn of the loop that looks the pattern up on disk whatever the cache holds
ImportCollectionUncached(M, filename, fs, namespace, spec) ==
  IF ~EndsWithMd(spec) THEN [M EXCEPT !.error = OnlyMdSupported(spec)]
  ELSE LET cachedLookups == IF filename \in DOMAIN M.cache THEN M.cache[filename] ELSE NoCache
           hit == FALSE
           found == IF hit THEN cachedLookups[spec] ELSE Glob(fs, spec)
           lookups == M.lookups \o <<[op |-> "cache", spec |-> spec]>>
                      \o (IF hit THEN <<>> ELSE <<[op |-> "glob", spec |-> spec]>>)
           data == [j \in 1..Len(found) |-> ImportPath(found[j])]
       IN IF Len(found) = 0
            THEN [M EXCEPT !.cache = Assign(@, filename,
                                            [sp \in DOMAIN cachedLookups \ {spec} |-> cachedLookups[sp]]),
                           !.lookups = lookups,
                           !.error = NoFilesMatched(spec, filename)]
          ELSE [M EXCEPT !.cache = Assign(@, filename, Assign(cachedLookups, spec, found)),
                         !.lookups = lookups,
                         !.statements = @ \cup {CollectionImport(namespace, j - 1, data[j]) : j \in 1..Len(data)},
                         !.dataStatement = @ \o DataStatement(namespace, found)]

\* One turn of for (const [namespace, spec] of collectionImports.entries()):
\* M = [statements, dataStatement, cache, lookups, error]
ImportCollection(M, filename, fs, namespace, spec) ==
  IF ~EndsWithMd(spec) THEN [M EXCEPT !.error = OnlyMdSupported(spec)]
  ELSE LET cachedLookups == IF filename \in DOMAIN M.cache THEN M.cache[filename] ELSE NoCache
           hit == spec \in DOMAIN cachedLookups
           found == IF hit THEN cachedLookups[spec] ELSE Glob(fs, spec)
           lookups == M.lookups \o <<[op |-> "cache", spec |-> spec]>>
                      \o (IF hit THEN <<>> ELSE <<[op |-> "glob", spec |-> spec]>>)
           data == [j \in 1..Len(found) |-> ImportPath(found[j])]
       IN IF Len(found) = 0
            THEN [M EXCEPT !.cache = Assign(@, filename,
                                            [sp \in DOMAIN cachedLookups \ {spec} |-> cachedLookups[sp]]),
                           !.lookups = lookups,
                           !.error = NoFilesMatched(spec, filename)]
          ELSE [M EXCEPT !.cache = Assign(@, filename, Assign(cachedLookups, spec, found)),
                         !.lookups = lookups,
                         !.statements = @ \cup {CollectionImport(namespace, j - 1, data[j]) : j \in 1..Len(data)},
                         !.dataStatement = @ \o DataStatement(namespace, found)]

RECURSIVE CollectionsLoop(_, _, _, _)
CollectionsLoop(M, filename, fs, entries) ==
  IF entries = <<>> \/ M.error # NoError THEN M
  ELSE CollectionsLoop(ImportCollection(M, filename, fs, Head(entries).key, Head(entries).val),
                       filename, fs, Tail(entries))

\* babelGenerator(program).code: the statements left in body
RECURSIVE Generate(_)
Generate(body) == IF body = <<>> THEN <<>> ELSE Head(body).text \o <<"\n">> \o Generate(Tail(body))

\* compileModule(module, state, compileOptions):
\* [components, statements, cache, lookups, script, componentPlugins, error]
compileModule(mod, filename, statements, extensions, fs, cache) ==
  IF ~mod.defined
    THEN [components |-> NoCache, statements |-> statements, cache |-> cache, lookups |-> <<>>,
          script |-> <<>>, componentPlugins |-> {}, error |-> NoError]
  ELSE
    LET L == BodyLoop(NoLocals(mod.body), Len(mod.body), filename)
        R == ComponentsLoop([components |-> NoCache, componentPlugins |-> {}, statements |-> statements],
                            L.componentImports, extensions)
        exported == R.statements \cup {L.componentExports[k].text : k \in 1..Len(L.componentExports)}
        M == CollectionsLoop([statements |-> exported, dataStatement |-> <<>>, cache |-> cache,
                              lookups |-> <<>>, error |-> NoError],
                             filename, fs, L.collectionImports)
    IN IF L.error # NoError
         THEN [components |-> NoCache, statements |-> statements, cache |-> cache, lookups |-> <<>>,
               script |-> <<>>, componentPlugins |-> {}, error |-> L.error]
       ELSE [components |-> R.components, statements |-> M.statements, cache |-> M.cache,
             lookups |-> M.lookups,
             script |-> IF M.error # NoError THEN <<>>
                        ELSE PropsStatement(L.componentProps) \o M.dataStatement \o Generate(L.body),
             componentPlugins |-> R.componentPlugins, error |-> M.error]

----------------------------------------------------------------------------
(* codegen: attributes *)

\* The source text of the code of a MustacheTag: expr, with what the styles pass
\* has wrapped around it
RECURSIVE CodeText(_, _)
CodeText(expr, appended) ==
  IF appended = <<>> THEN <<expr>>
  ELSE <<"(">> \o CodeText(expr, Front(appended)) \o <<")", " + '", " ", Last(appended), "'">>

\* The text of a Text fragment whose words are joined by spaces
RECURSIVE Words(_)
Words(ws) ==
  IF ws = <<>> THEN <<>>
  ELSE IF Len(ws) = 1 THEN ws
  ELSE <<Head(ws), " ">> \o Words(Tail(ws))

\* getTextFromAttribute(attr)
getTextFromAttribute(attr) ==
  CASE attr.type = "Text" -> Words(attr.raw)
    [] attr.type = "MustacheTag" -> CodeText(attr.codeStart.expr, attr.codeStart.appended)

\* attr.value.map(...).join('+')
RECURSIVE JoinFragments(_)
JoinFragments(value) ==
  IF value = <<>> THEN <<>>
  ELSE LET v == Head(value)
       IN (IF v.content.expr # "" THEN CodeText(v.content.expr, v.content.appended)
           ELSE JSONString(getTextFromAttribute(v)))
          \o (IF Len(value) > 1 THEN <<"+">> ELSE <<>>)
          \o JoinFragments(Tail(value))

\* getAttributes(attrs): the result object as an insertion-ordered map
RECURSIVE getAttributes(_)
getAttributes(attrs) ==
  IF attrs = <<>> THEN <<>>
  ELSE LET attr == Last(attrs)
           before == getAttributes(Front(attrs))
       IN CASE attr.value = "true" -> MapSet(before, attr.name, <<"true">>)
            [] attr.value \in {"false", "undefined"} -> before
            [] Len(attr.fragments) > 1 ->
                 MapSet(before, attr.name, <<"(">> \o JoinFragments(attr.fragments) \o <<")">>)
            [] Len(attr.fragments) = 0 -> MapSet(before, attr.name, <<"(", "undefined", ")">>)
            [] attr.fragments[1].type = "MustacheTag" ->
                 MapSet(before, attr.name,
                        <<"(">> \o CodeText(attr.fragments[1].codeStart.expr,
                                           attr.fragments[1].codeStart.appended) \o <<")">>)
            [] OTHER -> MapSet(before, attr.name, JSONString(getTextFromAttribute(attr.fragments[1])))

\* generateAttributes(attrs)
RECURSIVE AttributeEntries(_)
AttributeEntries(attrs) ==
  IF attrs = <<>> THEN <<>>
  ELSE JSONString(<<Head(attrs).key>>) \o <<":">> \o Head(attrs).val \o <<",">>
       \o AttributeEntries(Tail(attrs))

generateAttributes(attrs) == <<"{">> \o AttributeEntries(attrs) \o <<"}">>

----------------------------------------------------------------------------
(* codegen: component wrappers *)

\* getComponentUrl(ext): the url below /_astro/ with its extension replaced
getComponentUrl(url, ext) ==
  LET outUrl == IF url # <<>> /\ Head(url) = "../components/"
                  THEN <<"components/">> \o Tail(url) ELSE url
  IN <<"/_astro/">> \o (IF Extname(outUrl) # "" THEN Front(outUrl) ELSE outUrl) \o <<ext>>

\* dynamicImports.get(name)
DynamicImport(dynamicImports, name) ==
  IF name \in DOMAIN dynamicImports THEN dynamicImports[name] ELSE "undefined"

\* JSON.stringify({componentUrl, componentExport, frameworkUrls})
FrameworkUrls(plugin, dynamicImports) ==
  CASE plugin = "preact" -> <<"frameworkUrls", "preact", DynamicImport(dynamicImports, "preact")>>
    [] plugin = "react" -> <<"frameworkUrls", "react", DynamicImport(dynamicImports, "react"),
                              "react-dom", DynamicImport(dynamicImports, "react-dom")>>
    [] plugin = "vue" -> <<"frameworkUrls", "vue", DynamicImport(dynamicImports, "vue")>>
    [] OTHER -> <<>>

ComponentExt(plugin) ==
  CASE plugin = "svelte" -> ".svelte.js"
    [] plugin = "vue" -> ".vue.js"
    [] OTHER -> ".js"

HydrationOptions(plugin, url, dynamicImports) ==
  <<"{", "componentUrl">> \o getComponentUrl(url, ComponentExt(plugin))
  \o <<"componentExport", "default">> \o FrameworkUrls(plugin, dynamicImports) \o <<"}">>

\* `__${plugin}_${kind}(${name}, ${options})` and `__${plugin}_static(${name})`
HydrationWrapper(plugin, kind, name, options) ==
  <<"__", plugin, "_", kind, "(", name, ", ">> \o options \o <<")">>
StaticWrapper(plugin, name) == <<"__", plugin, "_", "static", "(", name, ")">>

\* `import {__${plugin}_${kind}} from '/_astro_internal/render/${plugin}.js';`
WrapperImport(plugin, kind) ==
  <<"import {", "__", plugin, "_", kind, "} from '", internalImport("render/" \o plugin \o ".js"), "';">>

NoSupportedPlugin(type) ==
  [kind |-> "NoSupportedPlugin", message |-> <<"No supported plugin found for extension ", type>>]
\* The message without the directive
AstroDoesNotSupportDirectives(kind) ==
  [kind |-> "AstroDoesNotSupport", message |-> <<"Astro", " does not support directives">>]

AstroDoesNotSupport(kind) ==
  [kind |-> "AstroDoesNotSupport", message |-> <<"Astro", " does not support :", kind>>]
UnknownComponentType == [kind |-> "UnknownComponentType", message |-> <<"Unknown component type">>]

HydrationKinds == {"load", "idle", "visible"}

\* A resolver that hydrates on load whatever the reference says
AlwaysHydrate(_name, info, dynamicImports) ==
  [wrapper |-> HydrationWrapper(info.plugin, "load", Split(_name)[1],
                                HydrationOptions(info.plugin, info.url, dynamicImports)),
   wrapperImport |-> WrapperImport(info.plugin, "load"),
   error |-> NoError]

\* getComponentWrapper(_name, {type, plugin, url}, opts): [wrapper, wrapperImport, error];
\* [name, kind] are the first two pieces of _name, kind "" when there is none
getComponentWrapper(_name, info, dynamicImports) ==
  LET pieces == Split(_name)
      name == pieces[1]
      kind == IF Len(pieces) > 1 THEN pieces[2] ELSE ""
      thrown(err) == [wrapper |-> <<>>, wrapperImport |-> <<>>, error |-> err]
  IN CASE info.plugin = "" -> thrown(NoSupportedPlugin(info.type))
       [] info.plugin = "astro" ->
            IF kind # "" THEN thrown(AstroDoesNotSupport(kind))
            ELSE [wrapper |-> <<name>>, wrapperImport |-> <<>>, error |-> NoError]
       [] info.plugin \in {"preact", "react", "svelte", "vue"} ->
            IF kind \in HydrationKinds
              THEN [wrapper |-> HydrationWrapper(info.plugin, kind, name,
                                                 HydrationOptions(info.plugin, info.url, dynamicImports)),
                    wrapperImport |-> WrapperImport(info.plugin, kind),
                    error |-> NoError]
            ELSE [wrapper |-> StaticWrapper(info.plugin, name),
                  wrapperImport |-> WrapperImport(info.plugin, "static"),
                  error |-> NoError]
       [] OTHER -> thrown(UnknownComponentType)

\* acquireDynamicComponentImports(plugins, resolve): the import map
Resolve(name) == "/_snowpack/pkg/" \o name \o ".js"

RuntimeImports(plugin) ==
  CASE plugin = "vue" -> {"vue"}
    [] plugin = "react" -> {"react", "react-dom"}
    [] plugin = "preact" -> {"preact"}
    [] OTHER -> {}

acquireDynamicComponentImports(plugins) ==
  [name \in UNION {RuntimeImports(plugin) : plugin \in plugins} |-> Resolve(name)]

----------------------------------------------------------------------------
(* codegen: markup *)

\* The tag names whose first letter is a capital (COMPONENT_NAME_SCANNER)
Capitalized == {"Comp", "Other"}
COMPONENT_NAME_SCANNER(name) == name # <<>> /\ Head(name) \in Capitalized

\* The message without the name
UnknownComponentUnnamed(componentName) ==
  [kind |-> "UnknownComponent", message |-> <<"Unknown Component">>]

UnknownComponent(componentName) ==
  [kind |-> "UnknownComponent", message |-> <<"Unknown Component: ", componentName>>]
Unexpected(event, type) ==
  [kind |-> "Unexpected", message |-> <<"Unexpected (", event, ") node type: ", type>>]
NoName == [kind |-> "NoName", message |-> <<"AHHHH">>]

\* compileExpressionSafe(raw).trim().replace(/\;$/, ''): esbuild prints the
\* expression as a statement
compileExpressionSafe(raw) == raw \o <<";", "\n">>

RECURSIVE TrimEnd(_)
TrimEnd(code) == IF code # <<>> /\ Last(code) \in Blank THEN TrimEnd(Front(code)) ELSE code

ExpressionCode(raw) ==
  LET code == TrimEnd(compileExpressionSafe(raw))
  IN IF code # <<>> /\ Last(code) = ";" THEN Front(code) ELSE code

\* compileCss(ast.css, state): the styles of the Style nodes of the css tree
compileCss(heap, css) == [k \in 1..Len(css) |-> heap[css[k]].content.styles]

\* What one call of compileHtml's enter(node) does to [outSource, css, statements]:
\* walk is "children" (go on into the node), "skip" (this.skip()) or "nested"
\* (compileHtml is called for the first child); resolved holds the component
\* reference resolved, if the node is one
Entered(out, css, statements, walk, refs, err) ==
  [outSource |-> out, css |-> css, statements |-> statements, walk |-> walk,
   resolved |-> refs, error |-> err]

EnterTag(n, node, st) ==
  LET name == node.name
      attributes == getAttributes(node.attributes)
      out == st.outSource \o (IF st.outSource = <<>> THEN <<>> ELSE <<",">>)
      pieces == Split(name)
      componentName == pieces[1]
      registered == componentName \in DOMAIN st.components
      w == getComponentWrapper(name, st.components[componentName], st.dynamicImports)
      ref(info, got) == [node |-> n, name |-> name, registered |-> registered,
                         plugin |-> info.plugin, wrapper |-> got.wrapper,
                         wrapperImport |-> got.wrapperImport, error |-> got.error]
  IN IF name = <<>>
       THEN Entered(st.outSource, st.css, st.statements, "children", <<>>, NoName)
     ELSE IF node.type = "Slot"
       THEN Entered(out \o <<"(children">>, st.css, st.statements, "children", <<>>, NoError)
     ELSE IF ~COMPONENT_NAME_SCANNER(name)
       THEN Entered(out \o <<"h(\"">> \o name \o <<"\", ">> \o generateAttributes(attributes),
                    st.css, st.statements, "children", <<>>, NoError)
     ELSE IF ~registered
       THEN Entered(out, st.css, st.statements, "children",
                    <<ref([plugin |-> ""],
                          [wrapper |-> <<>>, wrapperImport |-> <<>>,
                           error |-> UnknownComponent(componentName)])>>,
                    UnknownComponent(componentName))
     ELSE IF w.error # NoError
       THEN Entered(out, st.css, st.statements, "children",
                    <<ref(st.components[componentName], w)>>, w.error)
     ELSE Entered(out \o <<"h(">> \o w.wrapper \o <<", ">> \o generateAttributes(attributes),
                  st.css,
                  IF w.wrapperImport # <<>> THEN st.statements \cup {w.wrapperImport}
                  ELSE st.statements,
                  "children", <<ref(st.components[componentName], w)>>, NoError)

\* st = [outSource, css, statements, components, dynamicImports]
Enter(heap, n, st) ==
  LET node == heap[n]
      same(walk) == Entered(st.outSource, st.css, st.statements, walk, <<>>, NoError)
  IN CASE node.type = "Expression" ->
            IF Len(node.children) > 0 THEN same("nested")
            ELSE Entered(st.outSource \o <<",(">> \o ExpressionCode(node.codeStart \o node.codeEnd)
                         \o <<")">>,
                         st.css, st.statements, "skip", <<>>, NoError)
       [] node.type \in {"MustacheTag", "Comment", "Fragment"} -> same("children")
       [] node.type \in {"Slot", "Head", "InlineComponent", "Title", "Element"} ->
            EnterTag(n, node, st)
       [] node.type = "Attribute" -> same("skip")
       [] node.type = "Style" ->
            Entered(st.outSource, Append(st.css, node.content.styles), st.statements, "skip",
                    <<>>, NoError)
       [] node.type = "Text" ->
            IF Trim(getTextFromAttribute(node)) = <<>> THEN same("children")
            ELSE Entered(st.outSource \o <<",">> \o JSONString(getTextFromAttribute(node)),
                         st.css, st.statements, "children", <<>>, NoError)
       [] OTHER -> Entered(st.outSource, st.css, st.statements, "children", <<>>,
                           Unexpected("enter", node.type))

\* compileHtml's leave(node): [outSource, error]
Leave(node, out) ==
  CASE node.type \in {"Text", "Attribute", "Comment", "Fragment", "Expression", "MustacheTag"} ->
         [outSource |-> out, error |-> NoError]
    [] node.type \in {"Slot", "Head", "Body", "Title", "Element", "InlineComponent"} ->
         [outSource |-> out \o <<")">>, error |-> NoError]
    [] node.type = "Style" -> [outSource |-> out, error |-> NoError]
    [] OTHER -> [outSource |-> out, error |-> Unexpected("leave", node.type)]

\* state.css.join('\n\n')
RECURSIVE JoinCss(_)
JoinCss(css) ==
  IF css = <<>> THEN <<>>
  ELSE IF Len(css) = 1 THEN Head(css)
  ELSE Head(css) \o <<"\n\n">> \o JoinCss(Tail(css))

----------------------------------------------------------------------------
(* codegen: the documents handed to it *)

\* The state at the call of codegen() of the compiles cs
InitCodegenWith(cs, o, heap, tree, mod, extensions, fs) ==
  /\ opts = [c \in cs |-> o[c]]
  /\ source = [c \in cs |-> heap[c]]
  /\ nodes = [c \in cs |-> heap[c]]
  /\ ast = [c \in cs |-> tree[c]]
  /\ pc = [c \in cs |-> "optimized"]
  /\ stack = [c \in cs |-> <<>>]
  /\ scopedClass = [c \in cs |-> ScopedClassFor(o[c])]
  /\ styleNodes = [c \in cs |-> <<>>]
  /\ styleTransformPromises = [c \in cs |-> <<>>]
  /\ rootNode = [c \in cs |-> 0]
  /\ hasDoctype = [c \in cs |-> FALSE]
  /\ nodeModulesMiniCache = NoCache
  /\ module = [c \in cs |-> mod[c]]
  /\ files = fs
  /\ compileOptions = [c \in cs |-> [extensions |-> extensions[c]]]
  /\ state = [c \in cs |-> NoState]
  /\ globLookups = [c \in cs |-> <<>>]
  /\ miniGlobCache = NoCache
  /\ resolved = [c \in cs |-> <<>>]
  /\ result = [c \in cs |-> NoResult]
  /\ error = [c \in cs |-> NoError]
  /\ running = 0
  /\ calls = [c \in cs |-> <<>>]
  /\ compiled = [c \in cs |-> NoCompileResult]
  /\ islands = <<>>
  /\ browser = <<>>
  /\ items = [c \in cs |-> NoItems]

CodegenKinds == ReferenceKinds \cup {"div", "text", "blank", "slot", "expr", "Style"}

COMPONENTS == "../components/"

\* The frontmatter of a page that uses Comp: no frontmatter, or the import of
\* Comp from a file of one of these extensions, or the import of that file under
\* the local name Other
ComponentFiles == {".astro", ".jsx", ".vue", ".svelte", ".tsx"}
Frontmatters ==
  {NoModule} \cup
  {[defined |-> TRUE, body |-> <<ImportDeclaration("Comp", <<COMPONENTS, "Comp", ext>>)>>] :
     ext \in ComponentFiles} \cup
  {[defined |-> TRUE, body |-> <<ImportDeclaration("Other", <<COMPONENTS, "Comp", ".jsx">>)>>]}

\* compileOptions.extensions: the default, .jsx given to preact, .tsx given to a
\* plugin the compiler does not know
ExtensionOptions ==
  {defaultExtensions, [ext \in {".jsx"} |-> "preact"], [ext \in {".tsx"} |-> "solid"]}

\* The frontmatters with the options that matter to them
Setups ==
  {su \in [mod : Frontmatters, ext : ExtensionOptions] :
     \/ su.ext = defaultExtensions
     \/ /\ su.mod.defined
        /\ Extname(su.mod.body[1].source) \in DOMAIN su.ext}

\* Pages that refer to components
InitReferences ==
  \E d \in DocsUpTo(MaxRefs, CodegenKinds), su \in Setups :
    InitCodegenWith({1}, <<FILE_A>>, <<BuildHeap(d, <<>>)>>, <<BuildAst(d, <<>>)>>,
                    <<su.mod>>, <<su.ext>>, NoCache)

MD_POSTS == <<"./posts/*", ".md">>
MD_DOCS == <<"./docs/*", ".md">>
JSON_DATA == <<"./data/*", ".json">>

\* The top-level statements of a frontmatter that imports collections
CollectionStatements ==
  {VariableDeclaration(<<VariableDeclarator("Identifier", ns, CollectionCall("StringLiteral", spec))>>) :
     ns \in {"posts", "docs"}, spec \in {MD_POSTS, MD_DOCS, JSON_DATA}}
  \cup {VariableDeclaration(<<VariableDeclarator("Identifier", "posts",
                                                 CollectionCall("Identifier", <<"pattern">>))>>),
        VariableDeclaration(<<VariableDeclarator("Identifier", "posts",
                                                 CollectionCall("StringLiteral", MD_POSTS)),
                              VariableDeclarator("Identifier", "docs",
                                                 CollectionCall("StringLiteral", MD_DOCS))>>),
        VariableDeclaration(<<VariableDeclarator("Identifier", "count", OtherInit(<<"1">>)),
                              VariableDeclarator("Identifier", "posts",
                                                 CollectionCall("StringLiteral", MD_POSTS))>>),
        ExpressionStatement(<<"setup()">>),
        ExportNamedDeclaration("VariableDeclaration",
                               <<VariableDeclarator("Identifier", "title", NoInit)>>),
        ExportNamedDeclaration("VariableDeclaration",
                               <<VariableDeclarator("Identifier", "name", OtherInit(<<"'x'">>)),
                                 VariableDeclarator("Identifier", "count", OtherInit(<<"1">>))>>),
        ExportNamedDeclaration("VariableDeclaration",
                               <<VariableDeclarator("Identifier", "__layout",
                                                    OtherInit(<<"'../layouts/main.astro'">>))>>)}

\* What the patterns match on disk
Filesystems ==
  {[spec \in {MD_POSTS, MD_DOCS, JSON_DATA} |->
      CASE spec = MD_POSTS -> posts
        [] spec = MD_DOCS -> docs
        [] OTHER -> <<<<"data/d", ".json">>>>] :
     posts \in {<<>>, <<<<"posts/a", ".md">>>>, <<<<"./posts/a", ".md">>, <<"./posts/b", ".md">>>>},
     docs \in {<<>>, <<<<"docs/x", ".md">>>>}}

CollectionDoc == [n |-> 1, par |-> <<0>>, kind |-> <<"div">>]

\* One page that imports collections, compiled twice in one process
InitCollections ==
  \E body \in SeqsUpTo(CollectionStatements, MaxCollections), fs \in Filesystems :
    InitCodegenWith({1, 2}, <<FILE_A, FILE_A>>,
                    [c \in {1, 2} |-> BuildHeap(CollectionDoc, <<CssStyle(<<>>, <<"r">>)>>)],
                    [c \in {1, 2} |-> BuildAst(CollectionDoc, <<CssStyle(<<>>, <<"r">>)>>)],
                    [c \in {1, 2} |-> [defined |-> TRUE, body |-> body]],
                    [c \in {1, 2} |-> defaultExtensions], fs)

\* The values an attribute of the parsed tree can have: true, false, none, and a
\* list of no, one or several Text and MustacheTag fragments
AttributeShapes ==
  {Attr("on", "true", <<>>), Attr("off", "false", <<>>), Attr("none", "undefined", <<>>),
   Attr("empty", "list", <<>>),
   Attr("title", "list", <<TextValue(<<"a", "\"", "b">>)>>),
   Attr("id", "list", <<MustacheValue("id")>>),
   Attr("href", "list", <<TextValue(<<"/p/">>), MustacheValue("slug")>>),
   Attr("alt", "list", <<MustacheValue("x"), TextValue(<<"-">>), MustacheValue("y")>>)}

AttributesDoc == [n |-> 1, par |-> <<0>>, kind |-> <<"div">>]

\* One element with attributes of every shape
InitAttributes ==
  \E attrs \in SeqsUpTo(AttributeShapes, MaxAttrs) :
    InitCodegenWith({1}, <<FILE_A>>,
                    <<[BuildHeap(AttributesDoc, <<>>) EXCEPT ![2].attributes = attrs]>>,
                    <<BuildAst(AttributesDoc, <<>>)>>, <<NoModule>>, <<defaultExtensions>>, NoCache)

InitCodegen == InitReferences \/ InitCollections \/ InitAttributes

----------------------------------------------------------------------------
(* codegen() *)

treeVars == <<opts, source, nodes, ast, compiled, islands, browser, items>>

\* codegen() is called and awaits eslexer.init
Codegen(c) ==
  /\ pc[c] = "optimized"
  /\ running = 0
  /\ pc' = [pc EXCEPT ![c] = "codegen"]
  /\ UNCHANGED <<stack, error, running>>
  /\ UNCHANGED treeVars
  /\ UNCHANGED optimizeVars
  /\ UNCHANGED codegenVars

\* codegen() goes on after eslexer.init: the state is created, compileModule()
\* runs and acquireDynamicComponentImports() is awaited
CompileModule(c) ==
  /\ pc[c] = "codegen"
  /\ running = 0
  /\ LET m == compileModule(module[c], opts[c].filename, {}, compileOptions[c].extensions,
                            files, miniGlobCache)
     IN /\ state' = [state EXCEPT ![c] =
                       [filename |-> opts[c].filename, components |-> m.components, css |-> <<>>,
                        importExportStatements |-> m.statements, dynamicImports |-> NoCache,
                        script |-> m.script, componentPlugins |-> m.componentPlugins,
                        outSource |-> <<>>]]
        /\ miniGlobCache' = m.cache
        /\ globLookups' = [globLookups EXCEPT ![c] = m.lookups]
        /\ error' = [error EXCEPT ![c] = m.error]
        /\ pc' = [pc EXCEPT ![c] = IF m.error # NoError THEN "failed" ELSE "acquire"]
  /\ UNCHANGED <<stack, running, module, files, compileOptions, resolved, result>>
  /\ UNCHANGED treeVars
  /\ UNCHANGED optimizeVars

\* The runtime imports are resolved: codegen() goes on with compileCss() and
\* calls compileHtml(ast.html), whose walk enters the root
AcquireImports(c) ==
  /\ pc[c] = "acquire"
  /\ running = 0
  /\ LET root == nodes[c][ast[c].html]
         css == compileCss(nodes[c], ast[c].css)
         st == [outSource |-> <<>>, css |-> css,
                statements |-> state[c].importExportStatements,
                components |-> state[c].components,
                dynamicImports |-> acquireDynamicComponentImports(state[c].componentPlugins)]
         r == Enter(nodes[c], ast[c].html, st)
     IN /\ state' = [state EXCEPT ![c].dynamicImports = st.dynamicImports,
                                  ![c].css = r.css,
                                  ![c].importExportStatements = r.statements,
                                  ![c].outSource = <<r.outSource>>]
        /\ resolved' = [resolved EXCEPT ![c] = @ \o r.resolved]
        /\ IF r.error # NoError
             THEN /\ error' = [error EXCEPT ![c] = r.error]
                  /\ pc' = [pc EXCEPT ![c] = "failed"]
                  /\ UNCHANGED <<stack, running>>
           ELSE /\ pc' = [pc EXCEPT ![c] = "compileHtml"]
                /\ stack' = [stack EXCEPT ![c] = <<Frame(ast[c].html, 1)>>]
                /\ running' = c
                /\ UNCHANGED error
  /\ UNCHANGED <<module, files, compileOptions, globLookups, miniGlobCache, result>>
  /\ UNCHANGED treeVars
  /\ UNCHANGED optimizeVars

\* The loop of the walker, or of a nested compileHtml() call that walks one node
HasNextHtml(c) == IF Top(c).nested THEN Top(c).i <= 1 ELSE HasNext(c)

\* The outSource of the compileHtml() call in progress
OutSource(c) == Last(state[c].outSource)

\* walk(): the child at the loop index is entered by compileHtml's enter()
CodegenEnter(c) ==
  /\ pc[c] = "compileHtml"
  /\ running = c
  /\ HasNextHtml(c)
  /\ LET n == nodes[c][Top(c).node].children[Top(c).i]
         st == [outSource |-> OutSource(c), css |-> state[c].css,
                statements |-> state[c].importExportStatements,
                components |-> state[c].components,
                dynamicImports |-> state[c].dynamicImports]
         r == Enter(nodes[c], n, st)
         out == [state[c].outSource EXCEPT ![Len(state[c].outSource)] = r.outSource]
     IN /\ state' = [state EXCEPT ![c].css = r.css,
                                  ![c].importExportStatements = r.statements,
                                  ![c].outSource = IF r.walk = "nested" THEN Append(out, <<>>) ELSE out]
        /\ resolved' = [resolved EXCEPT ![c] = @ \o r.resolved]
        /\ IF r.error # NoError
             THEN /\ error' = [error EXCEPT ![c] = r.error]
                  /\ pc' = [pc EXCEPT ![c] = "failed"]
                  /\ stack' = [stack EXCEPT ![c] = <<>>]
                  /\ running' = 0
           ELSE /\ stack' = [stack EXCEPT ![c] =
                               CASE r.walk = "skip" -> [@ EXCEPT ![Len(@)].i = @ + 1]
                                 [] r.walk = "nested" -> Append(@, [Frame(n, 1) EXCEPT !.nested = TRUE])
                                 [] OTHER -> Append(@, Frame(n, 1))]
                /\ UNCHANGED <<pc, error, running>>
  /\ UNCHANGED <<module, files, compileOptions, globLookups, miniGlobCache, result>>
  /\ UNCHANGED treeVars
  /\ UNCHANGED optimizeVars

\* walk(): the children of a node are exhausted and compileHtml's leave() is
\* called for it; or a nested compileHtml() returns into the enter() of its
\* Expression, which emits the expression and skips the node
CodegenLeave(c) ==
  /\ pc[c] = "compileHtml"
  /\ running = c
  /\ ~HasNextHtml(c)
  /\ Len(stack[c]) > 1
  /\ LET node == nodes[c][Top(c).node]
         outs == state[c].outSource
         child == Last(outs)
         outer == Front(outs)
         r == IF Top(c).nested
                THEN [outSource |-> Append(Front(outer),
                                           Last(outer) \o <<",(">>
                                           \o ExpressionCode(node.codeStart \o child \o node.codeEnd)
                                           \o <<")">>),
                      error |-> NoError]
              ELSE LET l == Leave(node, child)
                   IN [outSource |-> Append(outer, l.outSource), error |-> l.error]
     IN /\ state' = [state EXCEPT ![c].outSource = r.outSource]
        /\ IF r.error # NoError
             THEN /\ error' = [error EXCEPT ![c] = r.error]
                  /\ pc' = [pc EXCEPT ![c] = "failed"]
                  /\ stack' = [stack EXCEPT ![c] = <<>>]
                  /\ running' = 0
           ELSE /\ stack' = [stack EXCEPT ![c] = Return(c)]
                /\ UNCHANGED <<pc, error, running>>
  /\ UNCHANGED <<module, files, compileOptions, globLookups, miniGlobCache, resolved, result>>
  /\ UNCHANGED treeVars
  /\ UNCHANGED optimizeVars

\* The root is left, compileHtml() returns and codegen() returns its result
CodegenReturn(c) ==
  /\ pc[c] = "compileHtml"
  /\ running = c
  /\ ~HasNextHtml(c)
  /\ Len(stack[c]) = 1
  /\ LET l == Leave(nodes[c][Top(c).node], OutSource(c))
     IN IF l.error # NoError
          THEN /\ error' = [error EXCEPT ![c] = l.error]
               /\ pc' = [pc EXCEPT ![c] = "failed"]
               /\ UNCHANGED <<result, state>>
        ELSE /\ result' = [result EXCEPT ![c] =
                             [defined |-> TRUE,
                              script |-> state[c].script,
                              imports |-> state[c].importExportStatements,
                              html |-> l.outSource,
                              css |-> [defined |-> Len(state[c].css) > 0,
                                       text |-> JoinCss(state[c].css)]]]
             /\ state' = [state EXCEPT ![c].outSource = <<l.outSource>>]
             /\ pc' = [pc EXCEPT ![c] = "done"]
             /\ UNCHANGED error
  /\ stack' = [stack EXCEPT ![c] = <<>>]
  /\ running' = 0
  /\ UNCHANGED <<module, files, compileOptions, globLookups, miniGlobCache, resolved>>
  /\ UNCHANGED treeVars
  /\ UNCHANGED optimizeVars

NextCodegen ==
  \/ \E c \in Compiles : Codegen(c)
  \/ \E c \in Compiles : CompileModule(c)
  \/ \E c \in Compiles : AcquireImports(c)
  \/ \E c \in Compiles : CodegenEnter(c)
  \/ \E c \in Compiles : CodegenLeave(c)
  \/ \E c \in Compiles : CodegenReturn(c)

SpecCodegen == InitCodegen /\ [][NextCodegen]_vars

----------------------------------------------------------------------------
(* Reading what codegen did *)

Refs(c) == Range(resolved[c])

\* The base name and the directive of a tag name: the text before and after ':'
BaseName(name) == Split(name)[1]
Directive(name) == IF Len(Split(name)) > 1 THEN Split(name)[2] ELSE ""

Pluggable == {"react", "preact", "vue", "svelte"}

Failed(c) == pc[c] = "failed"
NoOutput(c) == ~result[c].defined

\* The nodes compileHtml enters: all but what is below a Style, and of an
\* Expression its first child only
RECURSIVE CompiledBelow(_, _)
CompiledBelow(heap, n) ==
  LET kids == CASE heap[n].type \in {"Style", "Attribute"} -> <<>>
                [] heap[n].type = "Expression" ->
                     IF heap[n].children = <<>> THEN <<>> ELSE <<heap[n].children[1]>>
                [] OTHER -> heap[n].children
  IN {n} \cup UNION {CompiledBelow(heap, kids[k]) : k \in 1..Len(kids)}

\* The tags of the page that are component references
References(c) ==
  {n \in CompiledBelow(nodes[c], ast[c].html) :
     /\ nodes[c][n].type \in {"Element", "InlineComponent"}
     /\ COMPONENT_NAME_SCANNER(nodes[c][n].name)}

----------------------------------------------------------------------------
(* C3 *)

\* C3: when compileHtml enters an Element or InlineComponent whose name starts
\* with a capital and whose base name is no key of the component registry,
\* codegen throws 'Unknown Component: ' followed by exactly that base name and
\* returns no output; a page codegen returns output for has no such reference.
C3_UnknownComponentFails ==
  \A c \in Compiles :
    /\ \A r \in Refs(c) :
         BaseName(r.name) \notin DOMAIN state[c].components =>
           /\ Failed(c)
           /\ error[c].message = <<"Unknown Component: ", BaseName(r.name)>>
           /\ NoOutput(c)
    /\ result[c].defined =>
         \A n \in References(c) : BaseName(nodes[c][n].name) \in DOMAIN state[c].components

\* <Other:load> on a page that imports Comp only has failed the compile
C3_Witness ==
  \E c \in Compiles : \E r \in Refs(c) :
    /\ r.name = <<"Other", ":", "load">>
    /\ DOMAIN state[c].components = {"Comp"}
    /\ Failed(c)
    /\ error[c].message = <<"Unknown Component: ", "Other">>

----------------------------------------------------------------------------
(* C4 *)

\* C4: a reference to a component of a pluggable framework (react, preact, vue,
\* svelte) whose directive is present and is none of load, idle, visible fails
\* with an error that names the directive, and gets no wrapper.
C4_InvalidDirectiveFails ==
  \A c \in Compiles : \A r \in Refs(c) :
    (r.plugin \in Pluggable /\ Directive(r.name) \notin HydrationKinds \cup {""}) =>
      /\ r.error # NoError
      /\ Contains(r.error.message, <<Directive(r.name)>>)
      /\ r.wrapper = <<>>
      /\ Failed(c)

----------------------------------------------------------------------------
(* C6 *)

IsStatic(r) ==
  /\ r.error = NoError
  /\ r.wrapper \in {StaticWrapper(r.plugin, BaseName(r.name)), <<BaseName(r.name)>>}
IsHydration(r, k) ==
  /\ r.error = NoError
  /\ Len(r.wrapper) > 4
  /\ SubSeq(r.wrapper, 1, 5) = <<"__", r.plugin, "_", k, "(">>
IsError(r) ==
  /\ r.error.kind \in {"UnknownComponent", "AstroDoesNotSupport", "NoSupportedPlugin",
                       "UnknownComponentType"}
  /\ r.wrapper = <<>>

\* The outcomes a resolution has ended in
Outcomes(r) ==
  {o \in {"static", "load", "idle", "visible", "error"} :
     CASE o = "static" -> IsStatic(r)
       [] o = "error" -> IsError(r)
       [] OTHER -> IsHydration(r, o)}

HydrationImports == {WrapperImport(p, k) : p \in Pluggable, k \in HydrationKinds}
AllStatements(c) == state[c].importExportStatements \cup result[c].imports

----------------------------------------------------------------------------
(* C7 *)

WrapperImports ==
  {WrapperImport(p, k) : p \in Pluggable \cup {"astro"}, k \in HydrationKinds \cup {"static"}}

\* C7: a reference to a component of the native 'astro' plugin fails with
\* 'Astro does not support :<kind>' when it carries a directive <kind>; without
\* one it resolves to the bare component name with no wrapper import, and the
\* import set of a page whose components are all native holds no wrapper import.
C7_NativeComponent ==
  \A c \in Compiles :
    /\ \A r \in Refs(c) :
         r.plugin = "astro" =>
           IF Directive(r.name) # ""
             THEN /\ r.error.message = <<"Astro", " does not support :", Directive(r.name)>>
                  /\ r.wrapper = <<>>
                  /\ Failed(c) /\ NoOutput(c) /\ error[c] = r.error
           ELSE /\ r.error = NoError
                /\ r.wrapper = <<BaseName(r.name)>>
                /\ r.wrapperImport = <<>>
    /\ (\A r \in Refs(c) : r.plugin = "astro") => AllStatements(c) \cap WrapperImports = {}

\* A page with <Comp> and then <Comp:idle> of an .astro component: the first
\* has resolved to the bare name, the second has failed the compile
C7_Witness ==
  \E c \in Compiles : \E r1 \in Refs(c), r2 \in Refs(c) :
    /\ r1.plugin = "astro"
    /\ r1.name = <<"Comp">>
    /\ r1.wrapper = <<"Comp">>
    /\ r2.name = <<"Comp", ":", "idle">>
    /\ Failed(c)
    /\ error[c].message = <<"Astro", " does not support :", "idle">>
    /\ AllStatements(c) \cap WrapperImports = {}

----------------------------------------------------------------------------
(* C9, C10 *)

\* The collections of the frontmatter, as compileModule gathers them: [key, val]
Entries(c) == BodyLoop(NoLocals(module[c].body), Len(module[c].body), opts[c].filename).collectionImports
Gathered(c) == BodyLoop(NoLocals(module[c].body), Len(module[c].body), opts[c].filename).error = NoError

PastModule(c) == pc[c] \notin {"parsed", "optimized", "codegen"}

\* The patterns compile c has asked the cache or the filesystem for
LookedUp(c) == {globLookups[c][k].spec : k \in 1..Len(globLookups[c])}

\* The statements emitted for the collection namespace
StatementsFor(c, namespace) ==
  {st \in AllStatements(c) : Len(st) > 1 /\ st[1] = "const " /\ st[2] = namespace}

\* C9: when compileModule looks up a collection pattern that ends in .md and
\* matches no file, it throws an error whose message contains the pattern and
\* the source filename; nothing is returned, and the import set has no statement
\* for that collection. A compile that gets past compileModule has no such pattern.
C9_NoFilesMatchedFails ==
  \A c \in Compiles :
    /\ \A k \in 1..Len(Entries(c)) :
         LET e == Entries(c)[k]
         IN (PastModule(c) /\ e.val \in LookedUp(c) /\ EndsWithMd(e.val) /\ Glob(files, e.val) = <<>>) =>
              /\ Failed(c)
              /\ Contains(error[c].message, e.val)
              /\ Contains(error[c].message, opts[c].filename)
              /\ NoOutput(c)
              /\ state[c].script = <<>>
              /\ StatementsFor(c, e.key) = {}
    /\ (PastModule(c) /\ ~Failed(c)) =>
         \A k \in 1..Len(Entries(c)) : Glob(files, Entries(c)[k].val) # <<>>

\* A frontmatter with docs (one file) and posts (no file): the compile has
\* failed on posts after emitting the import of docs
C9_Witness ==
  \E c \in Compiles :
    /\ Len(Entries(c)) = 2
    /\ Failed(c)
    /\ error[c] = NoFilesMatched(MD_POSTS, opts[c].filename)
    /\ [op |-> "glob", spec |-> MD_POSTS] \in Range(globLookups[c])
    /\ StatementsFor(c, "docs") # {}
    /\ StatementsFor(c, "posts") = {}

\* C10: when the first collection pattern of a frontmatter does not end in .md,
\* the compile fails before any lookup in the glob cache or the filesystem, with
\* an error whose message contains the pattern and the source file.
C10_NotMarkdownFails ==
  \A c \in Compiles :
    (PastModule(c) /\ Gathered(c) /\ Entries(c) # <<>> /\ ~EndsWithMd(Entries(c)[1].val)) =>
      /\ Failed(c)
      /\ globLookups[c] = <<>>
      /\ Contains(error[c].message, Entries(c)[1].val)
      /\ Contains(error[c].message, opts[c].filename)

----------------------------------------------------------------------------
(* compileComponent(): parse, optimize, codegen of one source file *)

MaxPage == 2         \* html nodes of a page compiled from source to result

\* path.extname of the file names compiled
SourceExtname(filename) ==
  CASE Last(filename) \in {"a.astro", "b.astro"} -> ".astro"
    [] Last(filename) \in {"c.md"} -> ".md"
    [] OTHER -> ""

NotSupported == [kind |-> "NotSupported", message |-> <<"Not Supported!">>]

\* The template of modJsx with its holes filled from the TransformResult
ModJsx(r) == [imports |-> r.imports, script |-> r.script, html |-> r.html]

\* The state at the call of compileComponent() of the compiles cs
InitCompileWith(cs, o, heap, tree, mod, extensions, fs) ==
  /\ opts = [c \in cs |-> o[c]]
  /\ source = [c \in cs |-> heap[c]]
  /\ nodes = [c \in cs |-> heap[c]]
  /\ ast = [c \in cs |-> tree[c]]
  /\ pc = [c \in cs |-> "called"]
  /\ stack = [c \in cs |-> <<>>]
  /\ scopedClass = [c \in cs |-> ""]
  /\ styleNodes = [c \in cs |-> <<>>]
  /\ styleTransformPromises = [c \in cs |-> <<>>]
  /\ rootNode = [c \in cs |-> 0]
  /\ hasDoctype = [c \in cs |-> FALSE]
  /\ nodeModulesMiniCache = NoCache
  /\ module = [c \in cs |-> mod[c]]
  /\ files = fs
  /\ compileOptions = [c \in cs |-> [extensions |-> extensions[c]]]
  /\ state = [c \in cs |-> NoState]
  /\ globLookups = [c \in cs |-> <<>>]
  /\ miniGlobCache = NoCache
  /\ resolved = [c \in cs |-> <<>>]
  /\ result = [c \in cs |-> NoResult]
  /\ error = [c \in cs |-> NoError]
  /\ running = 0
  /\ calls = [c \in cs |-> <<>>]
  /\ compiled = [c \in cs |-> NoCompileResult]
  /\ islands = <<>>
  /\ browser = <<>>
  /\ items = [c \in cs |-> NoItems]

\* compileComponent() is called: transformFromSource() switches on the extension,
\* convertAstroToJsx() parses the template and calls optimize()
CompileComponent(c) ==
  /\ pc[c] = "called"
  /\ running = 0
  /\ IF SourceExtname(opts[c].filename) \in {".astro", ".md"}
       THEN /\ pc' = [pc EXCEPT ![c] = "parsed"]
            /\ running' = c
            /\ UNCHANGED error
     ELSE /\ pc' = [pc EXCEPT ![c] = "failed"]
          /\ error' = [error EXCEPT ![c] = NotSupported]
          /\ UNCHANGED running
  /\ UNCHANGED <<opts, source, nodes, ast, stack>>
  /\ UNCHANGED optimizeVars
  /\ UNCHANGED codegenVars

\* codegen() has returned through transformFromSource(): compileComponent()
\* fills the module template and returns
CompileComponentReturn(c) ==
  /\ pc[c] = "done"
  /\ running = 0
  /\ pc' = [pc EXCEPT ![c] = "returned"]
  /\ compiled' = [compiled EXCEPT ![c] =
                    [defined |-> TRUE, contents |-> ModJsx(result[c]), css |-> result[c].css]]
  /\ UNCHANGED <<opts, source, nodes, ast, stack, error, running>>
  /\ UNCHANGED optimizeVars
  /\ UNCHANGED <<module, files, compileOptions, state, globLookups, miniGlobCache, resolved, result,
                 islands, browser, items>>

FILE_B == [filename |-> <<"/", "proj", "/", "pages", "/", "b.astro">>,
           fileID |-> <<"pages", "/", "b.astro">>]
FILE_C == [filename |-> <<"/", "proj", "/", "pages", "/", "c.md">>,
           fileID |-> <<"pages", "/", "c.md">>]
FILE_D == [filename |-> <<"/", "proj", "/", "pages", "/", "d.txt">>,
           fileID |-> <<"pages", "/", "d.txt">>]

PageKinds == {"html", "head", "div", "divM", "doctype", "style", "text", "Comp:load"}

\* The css tree of a page: none, one plain stylesheet, one postcss stylesheet
PageCss == {<<>>, <<CssStyle(<<>>, <<"r">>)>>, <<CssStyle(<<"postcss">>, <<"r">>)>>}

ImportComp(ext) ==
  [defined |-> TRUE, body |-> <<ImportDeclaration("Comp", <<COMPONENTS, "Comp", ext>>)>>]

\* One page of every shape, compiled from its source
InitPages ==
  \E d \in DocsUpTo(MaxPage, PageKinds), css \in PageCss, mod \in {NoModule, ImportComp(".jsx")} :
    InitCompileWith({1}, <<FILE_A>>, <<BuildHeap(d, css)>>, <<BuildAst(d, css)>>,
                    <<mod>>, <<defaultExtensions>>, NoCache)

\* One page under every file name
InitFiles ==
  \E o \in {FILE_B, FILE_C, FILE_D} :
    InitCompileWith({1}, <<o>>, <<BuildHeap(PairDoc, <<>>)>>, <<BuildAst(PairDoc, <<>>)>>,
                    <<NoModule>>, <<defaultExtensions>>, NoCache)

\* Three source files: their options, document, stylesheets and frontmatter
SourceFiles ==
  {[o |-> FILE_A, d |-> [n |-> 2, par |-> <<0, 1>>, kind |-> <<"html", "div">>],
    css |-> <<CssStyle(<<>>, <<"r">>)>>, mod |-> NoModule],
   [o |-> FILE_B, d |-> [n |-> 2, par |-> <<0, 0>>, kind |-> <<"doctype", "Comp:load">>],
    css |-> <<CssStyle(<<"scss">>, <<"q">>)>>, mod |-> ImportComp(".jsx")],
   [o |-> FILE_C, d |-> [n |-> 2, par |-> <<0, 1>>, kind |-> <<"divM", "Comp">>],
    css |-> <<>>, mod |-> ImportComp(".svelte")]}

\* Compiles 1 and 2 are of two different source files; compile 3 is a second
\* compile of the source file of compile 1
InitConcurrent ==
  \E f \in [{1, 2} -> SourceFiles] :
    /\ f[1] # f[2]
    /\ LET g == [c \in {1, 2, 3} |-> IF c = 3 THEN f[1] ELSE f[c]]
       IN InitCompileWith({1, 2, 3}, [c \in {1, 2, 3} |-> g[c].o],
                          [c \in {1, 2, 3} |-> BuildHeap(g[c].d, g[c].css)],
                          [c \in {1, 2, 3} |-> BuildAst(g[c].d, g[c].css)],
                          [c \in {1, 2, 3} |-> g[c].mod],
                          [c \in {1, 2, 3} |-> defaultExtensions], NoCache)

\* A page with a style element in its markup: <div><style>t</style></div>
StyledDoc == [n |-> 3, par |-> <<0, 1, 2>>, kind |-> <<"div", "style", "text">>]

InitStyled ==
  \E css \in PageCss :
    InitCompileWith({1}, <<FILE_A>>, <<BuildHeap(StyledDoc, css)>>, <<BuildAst(StyledDoc, css)>>,
                    <<NoModule>>, <<defaultExtensions>>, NoCache)

InitCompile == InitPages \/ InitFiles \/ InitConcurrent \/ InitStyled

NextCompile ==
  \/ \E c \in Compiles : CompileComponent(c)
  \/ \E c \in Compiles : Optimize(c)
  \/ \E c \in Compiles : CssVisit(c)
  \/ \E c \in Compiles : HtmlWalk(c)
  \/ \E c \in Compiles : HtmlEnter(c)
  \/ \E c \in Compiles : HtmlLeave(c)
  \/ \E c \in Compiles : Finalizers(c)
  \/ \E c \in Compiles : \E k \in DOMAIN styleTransformPromises[c], found \in BOOLEAN : FindUp(c, k, found)
  \/ \E c \in Compiles : \E k \in DOMAIN styleTransformPromises[c] : Postcss(c, k)
  \/ \E c \in Compiles : StylesFinalize(c)
  \/ \E c \in Compiles : Codegen(c)
  \/ \E c \in Compiles : CompileModule(c)
  \/ \E c \in Compiles : AcquireImports(c)
  \/ \E c \in Compiles : CodegenEnter(c)
  \/ \E c \in Compiles : CodegenLeave(c)
  \/ \E c \in Compiles : CodegenReturn(c)
  \/ \E c \in Compiles : CompileComponentReturn(c)

SpecCompile == InitCompile /\ [][NextCompile]_vars

----------------------------------------------------------------------------
(* C11 *)

OptimizeStages == {"parsed", "cssWalk", "htmlWalk", "finalize"}
CodegenStages == {"codegen", "acquire", "compileHtml", "done", "returned"}

\* codegen() has done nothing for compile c
NotInvoked(c) ==
  /\ state[c] = NoState
  /\ resolved[c] = <<>>
  /\ globLookups[c] = <<>>
  /\ ~result[c].defined

\* The errors the transforms of compile c rejected with
Rejections(c) == {styleTransformPromises[c][k].error : k \in Rejected(c)}

\* C11: for one document the stages run in the order parse, optimize, codegen:
\* nothing of optimize has happened before the parse, nothing of codegen while
\* optimize runs, and codegen runs only on a tree whose finalizers all resolved.
\* When a finalizer rejects (a style transform rejected, or no root node was
\* found), optimize rejects with that rejection, codegen is never invoked and
\* compileComponent returns nothing: no contents and no css.
C11_StagesInOrder ==
  \A c \in Compiles :
    /\ pc[c] = "called" =>
         /\ nodes[c] = source[c] /\ calls[c] = <<>> /\ scopedClass[c] = ""
         /\ styleTransformPromises[c] = <<>>
         /\ NotInvoked(c)
    /\ pc[c] \in OptimizeStages => NotInvoked(c)
    /\ pc[c] \in CodegenStages \cup {"optimized"} => AllResolved(c) /\ rootNode[c] # 0
    /\ Rejected(c) # {} =>
         /\ pc[c] \in {"cssWalk", "htmlWalk", "finalize", "failed"}
         /\ pc[c] = "failed" => error[c] \in Rejections(c)
         /\ NotInvoked(c)
         /\ compiled[c] = NoCompileResult
    /\ error[c].kind = "NoRootNode" =>
         /\ pc[c] = "failed" /\ rootNode[c] = 0
         /\ NotInvoked(c)
         /\ compiled[c] = NoCompileResult
    /\ compiled[c].defined => pc[c] = "returned" /\ result[c].defined

\* A style transform has rejected and optimize has rejected with its error
C11_Witness ==
  \E c \in Compiles :
    /\ pc[c] = "failed"
    /\ Rejected(c) # {}
    /\ error[c].kind = "UnsupportedStyle"
    /\ rootNode[c] # 0

----------------------------------------------------------------------------
(* The hydration wrappers at run time: createRenderer() *)

MaxIslands == 2      \* hydrated component references of a rendered page
MaxEntries == 2      \* IntersectionObserver entries delivered to one observer

compileVars == <<opts, source, nodes, ast, pc, stack, scopedClass, styleNodes,
                 styleTransformPromises, rootNode, hasDoctype, nodeModulesMiniCache, module,
                 files, compileOptions, state, globLookups, miniGlobCache, resolved, result,
                 error, running, calls, compiled, items>>

\* The renderers: renderStatic returns an async function in both
SvelteRenderer == [name |-> "svelte", async |-> TRUE, imports |-> <<>>]
ReactRenderer == [name |-> "react", async |-> TRUE, imports |-> <<"react", "react-dom">>]
\* A renderer as the Renderer interface types it: renderStatic returns a function
\* that returns a string
StringRenderer == [name |-> "string", async |-> FALSE, imports |-> <<>>]

RepositoryRenderers == {SvelteRenderer, ReactRenderer}
Renderers == RepositoryRenderers \cup {StringRenderer}

\* Components: the static render of one succeeds, of the other throws
Components == {[throws |-> FALSE], [throws |-> TRUE]}

\* _static(Component)(props, ...children): the call throws, returns a string, or
\* (an async function) returns a promise that is fulfilled or rejected
RenderStatic(renderer, Component) ==
  IF renderer.async
    THEN [thrown |-> FALSE, type |-> "Promise",
          settled |-> IF Component.throws THEN "rejected" ELSE "fulfilled",
          html |-> IF Component.throws THEN <<>> ELSE <<"<b>", "hi", "</b>">>]
  ELSE IF Component.throws
    THEN [thrown |-> TRUE, type |-> "undefined", settled |-> "", html |-> <<>>]
  ELSE [thrown |-> FALSE, type |-> "string", settled |-> "", html |-> <<"<b>", "hi", "</b>">>]

\* ${value} in a template literal
ToText(v) ==
  CASE v.type = "string" -> v.html
    [] v.type = "Promise" -> <<"[object Promise]">>
    [] OTHER -> <<"undefined">>

\* The first lines of the script of each wrapper: how the hydration is scheduled
\* and, for an observer, the property of the entry the callback tests
WrapperStart(kind) ==
  CASE kind = "load" -> [schedule |-> "now", test |-> ""]
    [] kind = "idle" -> [schedule |-> "requestIdleCallback", test |-> ""]
    [] kind = "visible" -> [schedule |-> "IntersectionObserver", test |-> "isIntersection"]

NoWrapperOutput ==
  [anchor |-> [id |-> 0, content |-> <<>>],
   script |-> [defined |-> FALSE, start |-> WrapperStart("load"), imports |-> <<>>, root |-> 0]]

\* The function createDynamicRender(...)(Component, renderContext) returns, called
\* with props: [output, thrown, unhandled]
DynamicRender(renderer, kind, Component, id) ==
  LET r == RenderStatic(renderer, Component)
      value == IF r.thrown THEN <<>> ELSE ToText(r)
  IN [output |-> [anchor |-> [id |-> id, content |-> value],
                  script |-> [defined |-> TRUE, start |-> WrapperStart(kind),
                              imports |-> renderer.imports, root |-> id]],
      thrown |-> FALSE,
      unhandled |-> r.type = "Promise" /\ r.settled = "rejected"]

\* A wrapper created by codegen's call __<plugin>_<kind>(Component, {...});
\* createContext() has drawn its data-astro-id
Island(renderer, kind, Component, id) ==
  [renderer |-> renderer, kind |-> kind, Component |-> Component, id |-> id,
   stage |-> "created", output |-> NoWrapperOutput, thrown |-> FALSE, unhandled |-> FALSE]

NoScript == [stage |-> "none", observer |-> "none", entries |-> <<>>, root |-> 0]

\* The page is about to be rendered: its wrappers exist, nothing has run
InitRender ==
  /\ opts = NoCache /\ source = NoCache /\ nodes = NoCache /\ ast = NoCache
  /\ pc = NoCache /\ stack = NoCache /\ scopedClass = NoCache /\ styleNodes = NoCache
  /\ styleTransformPromises = NoCache /\ rootNode = NoCache /\ hasDoctype = NoCache
  /\ nodeModulesMiniCache = NoCache /\ module = NoCache /\ files = NoCache
  /\ compileOptions = NoCache /\ state = NoCache /\ globLookups = NoCache
  /\ miniGlobCache = NoCache /\ resolved = NoCache /\ result = NoCache
  /\ error = NoCache /\ calls = NoCache /\ compiled = NoCache /\ items = NoCache
  /\ running = 0
  /\ \E n \in 1..MaxIslands :
       \E w \in [1..n -> [renderer : Renderers, kind : HydrationKinds, Component : Components,
                          id : 1..MaxIslands]] :
         /\ islands = [i \in 1..n |-> Island(w[i].renderer, w[i].kind, w[i].Component, w[i].id)]
         /\ browser = [i \in 1..n |-> NoScript]

\* The page's render calls the wrapper of island i with its props
RenderIsland(i) ==
  /\ islands[i].stage = "created"
  /\ LET r == DynamicRender(islands[i].renderer, islands[i].kind, islands[i].Component, islands[i].id)
     IN islands' = [islands EXCEPT ![i] =
                      [@ EXCEPT !.stage = "rendered", !.output = r.output, !.thrown = r.thrown,
                                !.unhandled = r.unhandled]]
  /\ UNCHANGED browser
  /\ UNCHANGED compileVars

Rendered == \A i \in DOMAIN islands : islands[i].stage = "rendered"

\* document.querySelector('[data-astro-id="id"]'): the first anchor with the id
QuerySelector(id) ==
  CHOOSE i \in DOMAIN islands :
    /\ islands[i].output.anchor.id = id
    /\ \A j \in DOMAIN islands : islands[j].output.anchor.id = id => i <= j

\* The browser has the page and runs the module script of island i up to its end:
\* the async function is called, or handed to requestIdleCallback, or the
\* observer is created and observes the anchor
RunScript(i) ==
  /\ Rendered
  /\ browser[i].stage = "none"
  /\ islands[i].output.script.defined
  /\ LET start == islands[i].output.script.start
         root == QuerySelector(islands[i].output.script.root)
     IN browser' = [browser EXCEPT ![i] =
          CASE start.schedule = "now" -> [@ EXCEPT !.stage = "importing", !.root = root]
            [] start.schedule = "requestIdleCallback" -> [@ EXCEPT !.stage = "scheduled", !.root = root]
            [] start.schedule = "IntersectionObserver" ->
                 [@ EXCEPT !.stage = "observing", !.observer = "observing", !.root = root]]
  /\ UNCHANGED islands
  /\ UNCHANGED compileVars

\* The browser is idle and calls the callback given to requestIdleCallback
IdleCallback(i) ==
  /\ browser[i].stage = "scheduled"
  /\ browser' = [browser EXCEPT ![i].stage = "importing"]
  /\ UNCHANGED islands
  /\ UNCHANGED compileVars

\* entry.<name>: a property the object does not have reads as undefined
Property(obj, name) == IF name \in DOMAIN obj THEN obj[name] ELSE "undefined"
Truthy(v) == v \notin {"false", "undefined", ""}

\* What the browser reports of an observed element
IntersectionObserverEntries == [isIntersecting : {"true", "false"}]

\* The observer's callback is called with one entry: it returns at once, or
\* disconnects the observer and goes on to the imports
Intersection(i, entry) ==
  /\ browser[i].observer = "observing"
  /\ Len(browser[i].entries) < MaxEntries
  /\ browser' = [browser EXCEPT ![i] =
       IF ~Truthy(Property(entry, islands[i].output.script.start.test))
         THEN [@ EXCEPT !.entries = Append(@, entry)]
       ELSE [@ EXCEPT !.entries = Append(@, entry), !.observer = "disconnected",
                      !.stage = "importing"]]
  /\ UNCHANGED islands
  /\ UNCHANGED compileVars

\* await Promise.all([import(...)]) resolves and renderer.render() hydrates the root
Hydrate(i) ==
  /\ browser[i].stage = "importing"
  /\ browser' = [browser EXCEPT ![i].stage = "hydrated"]
  /\ UNCHANGED islands
  /\ UNCHANGED compileVars

NextRender ==
  \/ \E i \in DOMAIN islands : RenderIsland(i)
  \/ \E i \in DOMAIN islands : RunScript(i)
  \/ \E i \in DOMAIN islands : IdleCallback(i)
  \/ \E i \in DOMAIN islands : \E entry \in IntersectionObserverEntries : Intersection(i, entry)
  \/ \E i \in DOMAIN islands : Hydrate(i)

SpecRender == InitRender /\ [][NextRender]_vars

----------------------------------------------------------------------------
(* C12 *)

Intersecting(i) == \E k \in DOMAIN browser[i].entries : browser[i].entries[k].isIntersecting = "true"

\* C12: a component referenced with :visible is hydrated once its anchor enters the
\* viewport: when the observer's callback has been given an entry that reports the
\* element as intersecting, the observer is disconnected and the script has reached
\* the import-and-render step; while every entry given was non-intersecting, it has
\* not rendered.
C12_VisibleHydratesOnIntersection ==
  \A i \in DOMAIN islands :
    islands[i].kind = "visible" /\ browser[i].stage # "none" =>
      IF Intersecting(i)
        THEN browser[i].observer = "disconnected" /\ browser[i].stage \in {"importing", "hydrated"}
      ELSE browser[i].observer = "observing" /\ browser[i].stage = "observing"

----------------------------------------------------------------------------
(* C13 *)

\* C13: in every hydration wrapper (load, idle, visible) of every renderer of the
\* repository, when the static render of the component fails, the wrapper still
\* returns the anchor element with empty content followed by the hydration script,
\* and the failure does not propagate to the caller.
C13_FailedStaticRenderGivesEmptyAnchor ==
  \A i \in DOMAIN islands :
    /\ islands[i].stage = "rendered"
    /\ islands[i].Component.throws
    /\ islands[i].renderer \in RepositoryRenderers
    => /\ islands[i].output.anchor.content = <<>>
       /\ islands[i].output.script.defined
       /\ ~islands[i].thrown

----------------------------------------------------------------------------
(* C14 *)

Settled(c) == pc[c] \in {"returned", "failed"}

\* Everything compile c produced: what it returned or threw, its tree with the
\* inserted doctype and the injected styles, and the state of its passes
Outcome(c) ==
  [compiled |-> compiled[c], result |-> result[c], error |-> error[c], tree |-> nodes[c],
   scopedClass |-> scopedClass[c], hasDoctype |-> hasDoctype[c], styleNodes |-> styleNodes[c],
   rootNode |-> rootNode[c], components |-> state[c].components,
   imports |-> state[c].importExportStatements, calls |-> calls[c]]

\* C14: compiles of two different documents (1 and 2) interleave at their
\* suspension points in every order, together with a second compile (3) of the
\* document of compile 1; among the orders are those where compile 3 runs from
\* call to return before the others start, which is that document compiled
\* alone. Whatever the order, compile 1 ends with the outcome of compile 3:
\* script, imports, html, css, inserted doctype, scope token, doctype flag, style
\* nodes, style root and component registry.
C14_InterleavedEqualsAlone ==
  Compiles = {1, 2, 3} /\ Settled(1) /\ Settled(3) => Outcome(1) = Outcome(3)

\* Two different documents have been compiled to their results, one with an
\* inserted doctype and an injected stylesheet
C14_Witness ==
  /\ Compiles = {1, 2, 3}
  /\ \A c \in Compiles : pc[c] = "returned"
  /\ source[1] # source[2]
  /\ hasDoctype[1] /\ nodes[1] # source[1]
  /\ compiled[1].css.defined
  /\ compiled[1] # compiled[2]

----------------------------------------------------------------------------
(* C15 *)

\* The '!doctype' Elements of a tree
DoctypeElements(heap, root) ==
  {n \in TreeNodes(heap, root) : IsElementNamed(heap[n], <<"!doctype">>)}

\* The walk entered a '!doctype' Element before any 'html' Element
DoctypeEnteredFirst(c) ==
  \E k \in 1..Len(calls[c]) :
    /\ calls[c][k].tree = "html"
    /\ IsElementNamed(nodes[c][calls[c][k].node], <<"!doctype">>)
    /\ \A j \in 1..k :
         calls[c][j].tree = "html" => ~IsElementNamed(nodes[c][calls[c][j].node], <<"html">>)

\* C15: if a '!doctype' Element is entered by the optimizer walk before the 'html'
\* Element, no node is inserted: the '!doctype' Elements of the tree after
\* optimize are exactly those the parser produced, and each is as it was.
C15_UserDoctypePreserved ==
  \A c \in Compiles :
    Optimized(c) /\ DoctypeEnteredFirst(c) =>
      /\ DoctypeElements(nodes[c], ast[c].html) = DoctypeElements(source[c], ast[c].html)
      /\ \A n \in DoctypeElements(source[c], ast[c].html) : nodes[c][n] = source[c][n]

----------------------------------------------------------------------------
(* C16 *)

\* The html walk of compile c is over
Walked(c) == pc[c] \in {"finalize", "optimized", "failed"}

\* The places of calls[c] where a callback of the html walk was invoked on node n
CallsOn(c, n) == {k \in 1..Len(calls[c]) : calls[c][k].tree = "html" /\ calls[c][k].node = n}

\* The nodes below n in the tree the parser produced
Descendants(c, n) == TreeNodes(source[c], n) \ {n}

\* C16: during optimize, for every node that is in the html tree when the walk
\* begins, each enter callback registered for its type is invoked exactly once
\* (no pass registers a leave callback), and before every callback of its
\* descendants; also when the doctype pass inserts a sibling during the walk.
C16_EachCallbackOnce ==
  \A c \in Compiles :
    Walked(c) =>
      \A n \in TreeNodes(source[c], ast[c].html) :
        /\ \A p \in Range(EnterVisitors(source[c][n].type)) :
             Cardinality({k \in CallsOn(c, n) : calls[c][k].pass = p}) = 1
        /\ \A m \in Descendants(c, n) : \A k \in CallsOn(c, n), j \in CallsOn(c, m) : k < j

----------------------------------------------------------------------------
(* C17 *)

\* The places <<parent, index>> of the tree's children lists that hold node n
Occurrences(heap, root, n) ==
  {pl \in UNION {{<<p, i>> : i \in 1..Len(heap[p].children)} : p \in TreeNodes(heap, root)} :
     heap[pl[1]].children[pl[2]] = n}

\* The nodes reachable from the children of n
Below(heap, n) == Reach(heap, Range(heap[n].children))

\* C17: after optimize (doctype insertion and style injection) every non-root
\* node of the html tree occurs exactly once in exactly one parent's children
\* list, and the tree is acyclic.
C17_OneParentEach ==
  \A c \in Compiles :
    Optimized(c) =>
      /\ \A n \in TreeNodes(nodes[c], ast[c].html) \ {ast[c].html} :
           Cardinality(Occurrences(nodes[c], ast[c].html, n)) = 1
      /\ \A n \in TreeNodes(nodes[c], ast[c].html) : n \notin Below(nodes[c], n)

----------------------------------------------------------------------------
(* C18 *)

\* The Elements of the parsed tree the style pass scopes whose class attribute is
\* one interpolation {expr}
InterpolatedClass(c) ==
  {n \in TreeNodes(source[c], ast[c].html) :
     /\ Scoped(source[c][n])
     /\ FindAttr(source[c][n].attributes, "class") # 0
     /\ LET value == source[c][n].attributes[FindAttr(source[c][n].attributes, "class")].fragments
        IN Len(value) = 1 /\ value[1].type = "MustacheTag"}

\* The expression of the class attribute of node n in the parsed tree
ClassExpr(c, n) ==
  source[c][n].attributes[FindAttr(source[c][n].attributes, "class")].fragments[1].codeStart.expr

\* C18: for an element whose class attribute is a single interpolation {expr},
\* the class attribute expression that codegen emits after optimize is the
\* concatenation of the value of expr and the scope token: the token the style
\* pass appended is in the attributes codegen wrote into the html.
C18_TokenReachesCodegen ==
  \A c \in Compiles :
    result[c].defined =>
      \A n \in InterpolatedClass(c) :
        LET emitted == getAttributes(nodes[c][n].attributes)
        IN /\ Contains(result[c].html, generateAttributes(emitted))
           /\ MapIndex(emitted, "class") # 0
           /\ emitted[MapIndex(emitted, "class")].val =
                <<"(">> \o CodeText(ClassExpr(c, n), <<scopedClass[c]>>) \o <<")">>

----------------------------------------------------------------------------
(* C19 *)

\* compileModule() of compile c has built the component registry
RegistryBuilt(c) == pc[c] \in {"acquire", "compileHtml", "done", "returned"} \/ resolved[c] # <<>>

\* The import declarations of the frontmatter of compile c
Imports(c) == {st \in Range(module[c].body) : st.type = "ImportDeclaration"}

\* The plugin the options give the extension of an imported file
PluginOf(c, componentType) ==
  IF Lookup(compileOptions[c].extensions, componentType) # ""
    THEN Lookup(compileOptions[c].extensions, componentType)
  ELSE Lookup(defaultExtensions, componentType)

\* C19: for every import declaration of the frontmatter the component registry
\* has an entry under the import's local binding name, with the extension, plugin
\* and specifier of that import, so that a markup reference by that local name is
\* found in the registry and does not fail with Unknown Component; also when the
\* local name differs from the basename of the imported file.
C19_RegistryByLocalName ==
  \A c \in Compiles :
    RegistryBuilt(c) =>
      /\ \A st \in Imports(c) :
           /\ st.local \in DOMAIN state[c].components
           /\ state[c].components[st.local] =
                [type |-> Extname(st.source), plugin |-> PluginOf(c, Extname(st.source)),
                 url |-> st.source]
      /\ \A r \in Refs(c) :
           BaseName(r.name) \in {st.local : st \in Imports(c)} =>
             r.registered /\ r.error.kind # "UnknownComponent"

----------------------------------------------------------------------------
(* C20 *)

\* A variable declaration with an import.meta.collection() declarator
CollectionImportDeclaration(st) ==
  /\ st.type = "VariableDeclaration"
  /\ \E k \in 1..Len(st.declarations) :
       isImportMetaDeclaration(st.declarations[k]) /\ st.declarations[k].idType = "Identifier"

\* The top-level statements the frontmatter keeps, in source order
KeptStatement(st) ==
  /\ st.type # "ImportDeclaration"
  /\ ~(st.type = "ExportNamedDeclaration" /\ st.declaration = "VariableDeclaration")
  /\ ~CollectionImportDeclaration(st)
Kept(body) == SelectSeq(body, KeptStatement)

\* sub is read in order, with gaps or without, in seq
RECURSIVE InOrderIn(_, _)
InOrderIn(sub, seq) ==
  IF sub = <<>> THEN TRUE
  ELSE IF seq = <<>> THEN FALSE
  ELSE IF Head(sub) = Head(seq) THEN InOrderIn(Tail(sub), Tail(seq))
  ELSE InOrderIn(sub, Tail(seq))

\* C20: once compileModule has emitted the script, every top-level statement of
\* the frontmatter that is not an import declaration, an exported variable
\* declaration or a collection-import declaration is in the script, and the kept
\* statements are there in their source order; also when one declaration has
\* several collection-import declarators or mixes one with ordinary declarators.
C20_KeptStatementsStayInOrder ==
  \A c \in Compiles :
    (RegistryBuilt(c) /\ module[c].defined) =>
      InOrderIn(Generate(Kept(module[c].body)), state[c].script)

----------------------------------------------------------------------------
(* C21 *)

\* The top-level exported variable declarations of the frontmatter of compile c
ExportedVariables(c) ==
  {st \in Range(module[c].body) :
     st.type = "ExportNamedDeclaration" /\ st.declaration = "VariableDeclaration"}

\* export let __layout / export let __content
LayoutOrContent(st) == st.declarations[1].id \in {"__layout", "__content"}

\* The entry of a declarator in the destructuring of props
PropEntry(declarator) ==
  <<declarator.id>>
  \o (IF declarator.init.kind # "none" THEN <<"= ">> \o declarator.init.code ELSE <<>>)
  \o <<",">>

\* The script starts with one 'let {...} = props;' and has no other
Prologue(script) ==
  IF script # <<>> /\ Head(script) = "let {" /\ Count(script, "let {") = 1
     /\ Count(script, "} = props;\n") = 1
    THEN SubSeq(script, 2, IndexOf(script, "} = props;\n") - 1)
  ELSE <<>>

\* C21: once compileModule has emitted the script, every declarator of every
\* top-level exported variable declaration other than __layout and __content is,
\* with its initializer as default, in the one 'let {...} = props;' statement the
\* script starts with; an export of __layout or __content is no prop and its
\* source text is in the import/export statements.
C21_ExportedVariablesAreProps ==
  \A c \in Compiles :
    (RegistryBuilt(c) /\ module[c].defined) =>
      \A st \in ExportedVariables(c) :
        IF LayoutOrContent(st)
          THEN /\ st.text \in state[c].importExportStatements
               /\ ~Contains(Prologue(state[c].script), <<st.declarations[1].id>>)
        ELSE \A k \in 1..Len(st.declarations) :
               Contains(Prologue(state[c].script), PropEntry(st.declarations[k]))

----------------------------------------------------------------------------
(* C22 *)

\* The places of calls[c] that are visitor callbacks on a tree, and finalize() calls
CallbacksOf(c, tree) == {k \in 1..Len(calls[c]) : calls[c][k].event = "enter" /\ calls[c][k].tree = tree}
FinalizesOf(c) == {k \in 1..Len(calls[c]) : calls[c][k].event = "finalize"}

\* optimize() of compile c is in or before its html walk
Walking(c) == pc[c] \in {"called", "parsed", "cssWalk", "htmlWalk"}

\* C22: in optimize every visitor callback on the css tree is invoked before any
\* visitor callback on the html tree; no finalize() is called while the html walk
\* goes on, and every finalize() comes after every visitor callback; once the
\* walk is over the finalize() of each of the three registered passes (styles,
\* doctype, module scripts) has been called exactly once.
C22_WalksThenFinalizers ==
  \A c \in Compiles :
    /\ \A k \in CallbacksOf(c, "css"), j \in CallbacksOf(c, "html") : k < j
    /\ \A f \in FinalizesOf(c) : \A k \in CallbacksOf(c, "css") \cup CallbacksOf(c, "html") : k < f
    /\ Walking(c) => FinalizesOf(c) = {}
    /\ ~Walking(c) =>
         \A p \in {"styles", "doctype", "moduleScripts"} :
           Cardinality({f \in FinalizesOf(c) : calls[c][f].pass = p}) = 1

\* An optimize that invoked a callback on each tree, revisited an Element after
\* the doctype was inserted, and then called the finalizers
C22_Witness ==
  \E c \in Compiles :
    /\ ~Walking(c)
    /\ CallbacksOf(c, "css") # {}
    /\ Cardinality(CallbacksOf(c, "html")) > 2
    /\ hasDoctype[c]
    /\ Cardinality(FinalizesOf(c)) = 3

----------------------------------------------------------------------------
(* C23 *)

\* The Elements the html walk of compile c entered, in order of entry
ElementsEntered(c) ==
  LET ks == SelectSeq([k \in 1..Len(calls[c]) |-> k],
                      LAMBDA k : calls[c][k].tree = "html" /\ calls[c][k].pass = "styles")
  IN [j \in 1..Len(ks) |-> calls[c][ks[j]].node]

\* The root the claim names: a 'head' Element if one was entered, otherwise the
\* first Element entered that is no style
StyleRoots(c) ==
  LET heads == {n \in Range(ElementsEntered(c)) : nodes[c][n].name = <<"head">>}
      others == SelectSeq(ElementsEntered(c), LAMBDA n : nodes[c][n].name # <<"style">>)
  IN IF heads # {} THEN heads
     ELSE IF others # <<>> THEN {Head(others)}
     ELSE {}

\* The entries getAttributes gives the attribute of a node with a name
AttributeRead(node, name) ==
  getAttributes(SelectSeq(node.attributes, LAMBDA a : a.name = name))

\* C23: in the step in which the style pass finalizes, the injection root is the
\* 'head' Element if the html walk entered one, otherwise the first non-style
\* Element entered; the root's children become the collected style nodes, in
\* collection order, followed by the root's previous children; and each collected
\* style node then has a type attribute that reads 'text/css' and no lang attribute.
C23_StylesInjectedUnderRoot ==
  [][\A c \in Compiles :
       pc[c] = "finalize" /\ pc'[c] = "optimized" =>
         /\ rootNode[c] \in StyleRoots(c)
         /\ nodes'[c][rootNode[c]].children = styleNodes[c] \o nodes[c][rootNode[c]].children
         /\ \A n \in Range(styleNodes[c]) :
              /\ AttributeRead(nodes'[c][n], "type") =
                   getAttributes(<<Attr("type", "list", <<TextValue(<<"text/css">>)>>)>>)
              /\ FindAttr(nodes'[c][n].attributes, "lang") = 0]_vars

----------------------------------------------------------------------------
(* C24 *)

CssTags == {<<>>, <<"css">>, <<".css">>, <<"text/css">>}
SassTags == {<<"sass">>, <<".sass">>, <<"text/sass">>, <<"scss">>, <<".scss">>, <<"text/scss">>}
PostcssTags == {<<"postcss">>, <<".pcss">>, <<"text/postcss">>}

\* What a transform hands to the scoping post-processor, and what comes back
Dispatched(p, css) ==
  /\ p.state \in {"findUp", "postcss", "resolved"}
  /\ p.state = "postcss" => p.css = css
  /\ p.state = "resolved" => p.css = PostcssScoped(css, p.scopedClass)

\* C24: the transform of each collected stylesheet dispatches on its language tag:
\* with css or no tag the text goes unchanged to the scoping post-processor; with
\* sass or scss it is transpiled first; with a postcss tag (postcss, .pcss,
\* text/postcss) the transform rejects with an 'Unsupported' error, nothing of it
\* is ever scoped, and optimize never completes: the compile fails with that error.
C24_DispatchOnLanguage ==
  \A c \in Compiles : \A k \in 1..Len(styleTransformPromises[c]) :
    LET p == styleTransformPromises[c][k]
    IN /\ p.type \in CssTags => Dispatched(p, p.code)
       /\ p.type \in SassTags => Dispatched(p, SassRender(p.code))
       /\ p.type \in PostcssTags =>
            /\ p.state \in {"findUp", "rejected"}
            /\ p.css = <<>>
            /\ p.state = "rejected" => p.error.kind = "UnsupportedStyle"
            /\ pc[c] \in {"cssWalk", "htmlWalk", "finalize", "failed"}
            /\ pc[c] = "failed" => error[c].kind = "UnsupportedStyle"

\* A compile that failed on a postcss stylesheet while the plain stylesheet of the
\* same document was scoped
C24_Witness ==
  \E c \in Compiles :
    /\ pc[c] = "failed"
    /\ \E k \in 1..Len(styleTransformPromises[c]) :
         /\ styleTransformPromises[c][k].type \in PostcssTags
         /\ styleTransformPromises[c][k].state = "rejected"
    /\ \E k \in 1..Len(styleTransformPromises[c]) :
         /\ styleTransformPromises[c][k].type \in CssTags
         /\ styleTransformPromises[c][k].state = "resolved"

----------------------------------------------------------------------------
(* C25 *)

\* One fragment of a value of several fragments, as the claim has it: a Text
\* JSON-quoted, a MustacheTag as its code
ClaimedFragment(v) ==
  IF v.type = "Text" THEN JSONString(Words(v.raw)) ELSE <<v.content.expr>>

RECURSIVE ClaimedJoin(_)
ClaimedJoin(value) ==
  IF value = <<>> THEN <<>>
  ELSE ClaimedFragment(Head(value)) \o (IF Len(value) > 1 THEN <<"+">> ELSE <<>>)
       \o ClaimedJoin(Tail(value))

\* The attributes object the claim describes, by the shape of each value
RECURSIVE ClaimedAttributes(_)
ClaimedAttributes(attrs) ==
  IF attrs = <<>> THEN <<>>
  ELSE LET attr == Last(attrs)
           before == ClaimedAttributes(Front(attrs))
       IN CASE attr.value = "true" -> MapSet(before, attr.name, <<"true">>)
            [] attr.value \in {"false", "undefined"} -> before
            [] attr.fragments = <<>> -> before
            [] Len(attr.fragments) = 1 /\ attr.fragments[1].type = "Text" ->
                 MapSet(before, attr.name, JSONString(Words(attr.fragments[1].raw)))
            [] Len(attr.fragments) = 1 ->
                 MapSet(before, attr.name, <<"(", attr.fragments[1].codeStart.expr, ")">>)
            [] OTHER -> MapSet(before, attr.name, <<"(">> \o ClaimedJoin(attr.fragments) \o <<")">>)

\* C25: getAttributes maps each attribute by the shape of its value: true gives
\* the literal true; false, no value or a list of no fragment gives no entry; one
\* Text gives a JSON string literal; one MustacheTag gives its expression,
\* unquoted; two or more fragments give one '+'-joined expression in source order
\* with Text fragments JSON-quoted and MustacheTag fragments as code. The
\* attributes object of every compiled element in the html is the one described.
C25_AttributesByShape ==
  \A c \in Compiles :
    result[c].defined =>
      \A n \in CompiledBelow(nodes[c], ast[c].html) :
        nodes[c][n].type = "Element" =>
          /\ getAttributes(nodes[c][n].attributes) = ClaimedAttributes(nodes[c][n].attributes)
          /\ Contains(result[c].html, generateAttributes(ClaimedAttributes(nodes[c][n].attributes)))

----------------------------------------------------------------------------
(* C26 *)

\* The (source file, pattern) pairs the glob cache holds a result for
Cached ==
  UNION {{<<f, spec>> : spec \in DOMAIN miniGlobCache[f]} : f \in DOMAIN miniGlobCache}

\* compileModule of compile c ran in this step
CompiledModule(c) == pc[c] = "codegen" /\ pc'[c] # "codegen"

\* C26: across the compiles of one process, once the glob cache holds a result
\* for a (source file, pattern) pair, no step removes or replaces that entry, and
\* a compile of that file that imports that pattern takes the list from the cache:
\* it makes no filesystem lookup for it and its imports are those of the cached list.
C26_GlobCacheKept ==
  [][\A pr \in Cached :
       /\ pr[1] \in DOMAIN miniGlobCache'
       /\ pr[2] \in DOMAIN miniGlobCache'[pr[1]]
       /\ miniGlobCache'[pr[1]][pr[2]] = miniGlobCache[pr[1]][pr[2]]
       /\ \A c \in Compiles :
            (CompiledModule(c) /\ opts[c].filename = pr[1]) =>
              /\ [op |-> "glob", spec |-> pr[2]] \notin Range(globLookups'[c])
              /\ ([op |-> "cache", spec |-> pr[2]] \in Range(globLookups'[c]) /\ pc'[c] # "failed") =>
                   \E ns \in {"posts", "docs"} :
                     \A j \in 1..Len(miniGlobCache[pr[1]][pr[2]]) :
                       CollectionImport(ns, j - 1, ImportPath(miniGlobCache[pr[1]][pr[2]][j]))
                         \in state'[c].importExportStatements]_vars

\* A second compile of the file imported a pattern the first compile had cached
C26_Witness ==
  \E c \in Compiles : \E spec \in {<<"./posts/*", ".md">>, <<"./docs/*", ".md">>} :
    /\ pc[c] = "acquire"
    /\ [op |-> "cache", spec |-> spec] \in Range(globLookups[c])
    /\ [op |-> "glob", spec |-> spec] \notin Range(globLookups[c])
    /\ opts[c].filename \in DOMAIN miniGlobCache
    /\ spec \in DOMAIN miniGlobCache[opts[c].filename]
    /\ Len(miniGlobCache[opts[c].filename][spec]) = 2

----------------------------------------------------------------------------
(* codegen() that returns a list of items *)

MaxItems == 3        \* markup nodes of a document lowered by both code generators

\* getAttributes of the item generator: [attrs, error]
RECURSIVE getAttributesOfItems(_)
getAttributesOfItems(attrs) ==
  IF attrs = <<>> THEN [attrs |-> <<>>, error |-> NoError]
  ELSE LET attr == Last(attrs)
           b == getAttributesOfItems(Front(attrs))
           set(val) == [attrs |-> MapSet(b.attrs, attr.name, val), error |-> NoError]
       IN IF b.error # NoError THEN b
          ELSE CASE attr.value = "true" -> set(<<"true">>)
                 [] attr.value = "false" -> b
                 [] attr.value = "undefined" ->
                      [b EXCEPT !.error = [kind |-> "TypeError",
                                           message |-> <<"Cannot read property 'length' of undefined">>]]
                 [] Len(attr.fragments) > 1 -> set(<<"(">> \o JoinFragments(attr.fragments) \o <<")">>)
                 [] Len(attr.fragments) = 0 -> set(<<"(", "undefined", ")">>)
                 [] attr.fragments[1].type = "MustacheTag" ->
                      set(<<"(">> \o CodeText(attr.fragments[1].content.expr,
                                              attr.fragments[1].content.appended) \o <<")">>)
                 [] OTHER -> set(JSONString(Words(attr.fragments[1].raw)))

\* getComponentWrapper(_name, {type, plugin, url}, dynamicImports) of the item generator
getComponentWrapperOfItems(_name, info) ==
  LET pieces == Split(_name)
      name == pieces[1]
      kind == IF Len(pieces) > 1 THEN pieces[2] ELSE ""
      thrown(err) == [wrapper |-> <<>>, wrapperImport |-> <<>>, error |-> err]
  IN CASE info.plugin = "" -> thrown(NoSupportedPlugin(info.type))
       [] info.plugin = "astro" ->
            IF kind # "" THEN thrown(AstroDoesNotSupport(kind))
            ELSE [wrapper |-> <<name>>, wrapperImport |-> <<>>, error |-> NoError]
       [] info.plugin \in {"preact", "react", "svelte", "vue"} ->
            IF kind = "dynamic"
              THEN [wrapper |-> <<"__", info.plugin, "_", "dynamic", "(", name, ", ">> \o info.url
                                \o <<")">>,
                    wrapperImport |-> WrapperImport(info.plugin, "dynamic"), error |-> NoError]
            ELSE [wrapper |-> StaticWrapper(info.plugin, name),
                  wrapperImport |-> WrapperImport(info.plugin, "static"), error |-> NoError]
       [] OTHER -> thrown(UnknownComponentType)

NotPossible(what) == [kind |-> "NotPossible", message |-> <<"Not possible! ">> \o what]

\* The locals of the walk: items, collectionItem (the place of the open item in
\* items, 0 when undefined), currentItemName, currentDepth; and what it threw
NoWalk(statements) ==
  [items |-> <<>>, collectionItem |-> 0, currentItemName |-> <<>>, currentDepth |-> 0,
   statements |-> statements, error |-> NoError]

\* collectionItem.jsx += text
AddJsx(W, text) == [W EXCEPT !.items[W.collectionItem].jsx = @ \o text]

\* enter(node) for Slot, Head, InlineComponent, Title and Element
ItemsEnterTag(node, W, components) ==
  LET name == node.name
      a == getAttributesOfItems(node.attributes)
      W1 == [W EXCEPT !.currentDepth = @ + 1, !.currentItemName = name]
      W2 == IF W1.collectionItem = 0
              THEN [W1 EXCEPT !.items = Append(@, [name |-> name, jsx |-> <<>>]),
                              !.collectionItem = Len(W1.items) + 1]
            ELSE W1
      W3 == AddJsx(W2, IF W2.items[W2.collectionItem].jsx = <<>> THEN <<>> ELSE <<",">>)
      componentName == Split(name)[1]
      w == getComponentWrapperOfItems(name, components[componentName])
  IN IF name = <<>> THEN [W EXCEPT !.error = NoName]
     ELSE IF a.error # NoError THEN [W EXCEPT !.error = a.error]
     ELSE IF node.type = "Slot" THEN AddJsx(W3, <<"(children">>)
     ELSE IF ~COMPONENT_NAME_SCANNER(name)
       THEN AddJsx(W3, <<"h(\"">> \o name \o <<"\", ">> \o generateAttributes(a.attrs))
     ELSE IF componentName \notin DOMAIN components
       THEN [W3 EXCEPT !.error = UnknownComponent(componentName)]
     ELSE IF w.error # NoError THEN [W3 EXCEPT !.error = w.error]
     ELSE [AddJsx(W3, <<"h(">> \o w.wrapper \o <<", ">> \o generateAttributes(a.attrs))
             EXCEPT !.statements = IF w.wrapperImport # <<>> THEN @ \cup {w.wrapperImport} ELSE @]

\* enter(node) of the walk, for the node types of the trees lowered here (a
\* MustacheTag node is not among them): [W, skip]
ItemsEnter(node, W, components) ==
  LET go(V) == [W |-> V, skip |-> FALSE]
  IN CASE node.type \in {"Comment", "Fragment"} -> go(W)
       [] node.type \in {"Slot", "Head", "InlineComponent", "Title", "Element"} ->
            go(ItemsEnterTag(node, W, components))
       [] node.type = "Attribute" -> [W |-> W, skip |-> TRUE]
       [] node.type = "Style" ->
            LET a == getAttributesOfItems(node.attributes)
            IN IF a.error # NoError THEN go([W EXCEPT !.error = a.error])
               ELSE go([W EXCEPT !.items =
                          Append(@, [name |-> <<"style">>,
                                     jsx |-> <<"h(\"", "style", "\", ">> \o generateAttributes(a.attrs)
                                             \o <<", ">> \o JSONString(node.content.styles) \o <<")">>])])
       [] node.type = "Text" ->
            IF Trim(Words(node.raw)) = <<>> THEN go(W)
            ELSE IF W.collectionItem = 0
              THEN go([W EXCEPT !.error = NotPossible(<<"TEXT:">> \o Words(node.raw))])
            ELSE go(AddJsx(W, <<",">> \o JSONString(Words(node.raw))))
       [] OTHER -> go([W EXCEPT !.error = Unexpected("enter", node.type)])

\* leave(node) of the walk
ItemsLeave(node, W) ==
  LET close == IF W.collectionItem = 0 THEN [W EXCEPT !.error = NotPossible(<<"CLOSE ">> \o node.name)]
               ELSE [AddJsx(W, <<")">>) EXCEPT
                       !.currentDepth = @ - 1,
                       !.collectionItem = IF W.currentDepth - 1 = 0 THEN 0 ELSE @]
  IN CASE node.type \in {"Text", "MustacheTag", "Attribute", "Comment", "Style"} -> W
       [] node.type = "Fragment" -> IF W.collectionItem = 0 THEN W ELSE close
       [] node.type \in {"Slot", "Head", "Body", "Title", "Element", "InlineComponent"} -> close
       [] OTHER -> [W EXCEPT !.error = Unexpected("leave", node.type)]

\* walk(ast.html, {enter, leave}) from node n: a throw ends the walk
RECURSIVE ItemsVisit(_, _, _, _)
RECURSIVE ItemsVisitAll(_, _, _, _)
ItemsVisit(heap, n, W, components) ==
  IF W.error # NoError THEN W
  ELSE LET e == ItemsEnter(heap[n], W, components)
           below == IF e.skip THEN e.W ELSE ItemsVisitAll(heap, heap[n].children, e.W, components)
       IN IF e.W.error # NoError THEN e.W
          ELSE IF e.skip \/ below.error # NoError THEN below
          ELSE ItemsLeave(heap[n], below)

ItemsVisitAll(heap, children, W, components) ==
  IF children = <<>> THEN W
  ELSE ItemsVisitAll(heap, Tail(children), ItemsVisit(heap, Head(children), W, components), components)

\* codegen() of the item generator goes on after its await and returns {script, imports, items}
CodegenItems(c) ==
  /\ pc[c] = "done"
  /\ running = 0
  /\ ~items[c].defined
  /\ LET W == ItemsVisit(nodes[c], ast[c].html, NoWalk(state[c].importExportStatements),
                         state[c].components)
     IN items' = [items EXCEPT ![c] = [defined |-> TRUE, items |-> W.items, error |-> W.error]]
  /\ UNCHANGED <<opts, source, nodes, ast, pc, stack, error, running, compiled, islands, browser>>
  /\ UNCHANGED optimizeVars
  /\ UNCHANGED <<module, files, compileOptions, state, globLookups, miniGlobCache, resolved, result>>

\* Trees of Element, native InlineComponent without directive, Slot and Text
\* nodes, with Text and boolean attributes
ItemKinds == {"div", "divT", "text", "blank", "slot", "Comp", "CompA"}

InitItems ==
  \E d \in DocsUpTo(MaxItems, ItemKinds) :
    InitCodegenWith({1}, <<FILE_A>>, <<BuildHeap(d, <<>>)>>, <<BuildAst(d, <<>>)>>,
                    <<[defined |-> TRUE,
                       body |-> <<ImportDeclaration("Comp", <<COMPONENTS, "Comp", ".astro">>)>>]>>,
                    <<defaultExtensions>>, NoCache)

NextItems ==
  \/ \E c \in Compiles : Codegen(c)
  \/ \E c \in Compiles : CompileModule(c)
  \/ \E c \in Compiles : AcquireImports(c)
  \/ \E c \in Compiles : CodegenEnter(c)
  \/ \E c \in Compiles : CodegenLeave(c)
  \/ \E c \in Compiles : CodegenReturn(c)
  \/ \E c \in Compiles : CodegenItems(c)

SpecItems == InitItems /\ [][NextItems]_vars

----------------------------------------------------------------------------
(* C27 *)

\* items.map((item) => item.jsx).join(',')
RECURSIVE JoinJsx(_)
JoinJsx(its) ==
  IF its = <<>> THEN <<>>
  ELSE Head(its).jsx \o (IF Len(its) > 1 THEN <<",">> ELSE <<>>) \o JoinJsx(Tail(its))

\* C27: for a tree of Element, native InlineComponent without directive, Slot and
\* Text nodes with Text or boolean attributes, the item generator returns items
\* whose jsx strings joined with ',' are exactly the html string the string
\* generator returns for the same tree.
C27_ItemsEqualString ==
  \A c \in Compiles :
    items[c].defined =>
      /\ result[c].defined
      /\ items[c].error = NoError
      /\ JoinJsx(items[c].items) = result[c].html

----------------------------------------------------------------------------
(* C28 *)

\* How many times sub occurs in s
CountIn(s, sub) == Cardinality({k \in 0..(Len(s) - Len(sub)) : SubSeq(s, k + 1, k + Len(sub)) = sub})

\* The physical <style> nodes of the document of compile c, as parsed: the Style
\* nodes of the css tree and the style elements of the html tree
CssTreeStyles(c) == {n \in DOMAIN source[c] : source[c][n].type = "Style"}
HtmlTreeStyles(c) ==
  {n \in DOMAIN source[c] : source[c][n].type = "Element" /\ source[c][n].name = <<"style">>}

\* C28: after optimize followed by codegen, every Style node of the css tree has
\* put its text into the css accumulator exactly once, and every style element of
\* the html tree is emitted exactly once in the markup.
C28_EachStyleOnce ==
  \A c \in Compiles :
    result[c].defined /\ calls[c] # <<>> =>
      /\ Len(state[c].css) = Cardinality(CssTreeStyles(c))
      /\ CountIn(result[c].html, <<"h(\"", "style", "\", ">>) = Cardinality(HtmlTreeStyles(c))

----------------------------------------------------------------------------
(* C29 *)

\* The pieces of generated text that begin with a comma, and those that end
\* with one (a space may follow it)
CommaFirst == {",", ",("}
CommaLast == {",", ", ", "\", "}

BeginsWithComma(s) == s # <<>> /\ Head(s) \in CommaFirst
EmptyArgument(s) == \E k \in 1..(Len(s) - 1) : s[k] \in CommaLast /\ s[k + 1] \in CommaFirst

\* C29: the string compileHtml returns is a well-formed list of arguments,
\* whatever node is emitted first: it does not begin with a comma and holds no
\* empty argument, so that h(Fragment, null, <html>) is a well-formed call.
C29_HtmlIsArgumentList ==
  \A c \in Compiles :
    result[c].defined => ~BeginsWithComma(result[c].html) /\ ~EmptyArgument(result[c].html)

----------------------------------------------------------------------------
(* C30 *)

\* The html walk of compile c has entered an Element that is not a style element
NonStyleElementEntered(c) ==
  \E k \in 1..Len(calls[c]) :
    /\ calls[c][k].pass = "styles" /\ calls[c][k].event = "enter" /\ calls[c][k].tree = "html"
    /\ source[c][calls[c][k].node].type = "Element"
    /\ source[c][calls[c][k].node].name # <<"style">>

\* finalize() of the styles pass has been called and has settled
StylesFinalized(c) ==
  /\ FinalizesOf(c) # {}
  /\ pc[c] \notin {"called", "parsed", "cssWalk", "htmlWalk", "finalize"}

NoRootNodeFound(c) == pc[c] = "failed" /\ error[c].kind = "NoRootNode"

\* C30: when the html walk entered no Element other than style elements the
\* compile aborts in finalize of the styles pass: with 'No root node found' if no
\* style transform rejected (also when no stylesheet was collected), with the
\* error of a rejected transform otherwise, since the transforms are awaited
\* before the root node is tested; when a non-style Element was entered,
\* finalize never raises 'No root node found'.
C30_NoRootNodeUnlessRejected ==
  \A c \in Compiles :
    StylesFinalized(c) =>
      /\ ~NonStyleElementEntered(c) =>
            /\ pc[c] = "failed"
            /\ Rejected(c) = {} => error[c].kind = "NoRootNode"
            /\ Rejected(c) # {} =>
                 \E k \in Rejected(c) : error[c] = styleTransformPromises[c][k].error
      /\ NonStyleElementEntered(c) => ~NoRootNodeFound(c)

\* A document of text only, with no stylesheet, has failed with 'No root node found'
C30_Witness ==
  \E c \in Compiles :
    /\ StylesFinalized(c)
    /\ ~NonStyleElementEntered(c)
    /\ styleNodes[c] = <<>>
    /\ nodes[c][ast[c].html].children # <<>>
    /\ NoRootNodeFound(c)

\* C30 as stated: 'No root node found' is raised exactly when the html walk
\* entered no Element other than style elements.
C30_NoRootNodeIffNoElement ==
  \A c \in Compiles :
    StylesFinalized(c) => (NoRootNodeFound(c) <=> ~NonStyleElementEntered(c))

====
